---- MODULE Spec2Model ----
(***************************************************************************)
(* Isomer process supervisor (src-tauri/src/process_manager.rs), its log   *)
(* buffer and health probe, and the binary provisioner                     *)
(* (apps/desktop/src-tauri/src/binary_manager.rs).                         *)
(*                                                                         *)
(* The supervisor's methods take &mut self, so one call runs at a time;    *)
(* each public method is one action.  What a call does to the operating    *)
(* system, in program order, is kept in call.events, so that ordering      *)
(* properties of a call are properties of that sequence.  The operating    *)
(* system side (process table, files, directories, the node's chain) is    *)
(* part of the state; what the environment decides during a call (a spawn  *)
(* failing, a process ignoring SIGTERM, wait() failing) is an input of the *)
(* action.  The unix build (cfg(unix)) is the one modelled.                *)
(*                                                                         *)
(* Spec is the supervisor; SpecHealth adds the health probe; SpecLogs is   *)
(* the log buffer of a running stack; SpecDownload, SpecProgress and       *)
(* SpecDownloadAll are the provisioner: single downloads and status        *)
(* checks, one download chunk by chunk, and batches.                       *)
(***************************************************************************)
EXTENDS Integers, Sequences, FiniteSets, TLC

\* ------------------------------------------------------------------ bounds
MaxSteps == 4      \* supervisor calls plus faults of the environment (a child
                   \* ending on its own, a spawn, wait, poll, RPC, removal or
                   \* download failing) in one behaviour

MaxOverflow == 2   \* log lines read beyond the capacity of the log buffer, since
                   \* the buffer was last empty

MaxInstalls == 2   \* provisioner calls that use the network (fetch_checksums,
                   \* download, download_all) in one behaviour

MaxChunks == 2     \* chunks in which the body of one download arrives

MaxBeyond == 2     \* blocks beyond the coinbase maturity height on the chain the
                   \* bootstrap first meets

MaxTasks == 2      \* command handlers in flight at the same time

\* ------------------------------------------------------- service catalog
Bitcoind == "Bitcoind"
Metashrew == "Metashrew"
Memshrew == "Memshrew"
Ord == "Ord"
Esplora == "Esplora"
JsonRpc == "JsonRpc"

ServiceId == {Bitcoind, Metashrew, Memshrew, Ord, Esplora, JsonRpc}

all == <<Bitcoind, Metashrew, Memshrew, Ord, Esplora, JsonRpc>>

id(s) ==
  CASE s = Bitcoind -> "bitcoind"
    [] s = Metashrew -> "metashrew"
    [] s = Memshrew -> "memshrew"
    [] s = Ord -> "ord"
    [] s = Esplora -> "esplora"
    [] s = JsonRpc -> "alkanes-jsonrpc"

display_name(s) ==
  CASE s = Bitcoind -> "Bitcoin Core"
    [] s = Metashrew -> "Metashrew (Indexer)"
    [] s = Memshrew -> "Memshrew (Mempool)"
    [] s = Ord -> "Ord (Inscriptions)"
    [] s = Esplora -> "Esplora (Explorer)"
    [] s = JsonRpc -> "Alkanes JSON-RPC"

binary_name(s) ==
  CASE s = Bitcoind -> "bitcoind"
    [] s = Metashrew -> "rockshrew-mono"
    [] s = Memshrew -> "memshrew-p2p"
    [] s = Ord -> "ord"
    [] s = Esplora -> "flextrs"
    [] s = JsonRpc -> "jsonrpc"

dependencies(s) ==
  CASE s = Bitcoind -> {}
    [] s = Metashrew -> {Bitcoind}
    [] s = Memshrew -> {Bitcoind}
    [] s = Ord -> {Bitcoind}
    [] s = Esplora -> {Bitcoind}
    [] s = JsonRpc -> {Bitcoind, Metashrew, Memshrew, Ord, Esplora}

get_port_for_service(s) ==
  CASE s = Bitcoind -> 18443
    [] s = Metashrew -> 8080
    [] s = Memshrew -> 8081
    [] s = Ord -> 8090
    [] s = Esplora -> 50010
    [] s = JsonRpc -> 18888

\* ------------------------------------------------------------ file layout
\* A path is the sequence of its components under the platform data root.
get_data_dir == <<"Isomer">>
get_bin_dir == Append(get_data_dir, "bin")
get_runtime_dir == Append(get_data_dir, "data")
get_logs_dir == Append(get_data_dir, "logs")

\* Faulty variant: the supervisor looks the binary up under the service id, not
\* under the binary name the provisioner installs it as.
get_binary_path_by_id(s) == Append(get_bin_dir, id(s))

\* ProcessManager::get_binary_path
get_binary_path(s) == Append(get_bin_dir, binary_name(s))

\* BinaryManager::get_binary_path and BinaryManager::is_installed
bm_get_binary_path(s) == Append(get_bin_dir, binary_name(s))
is_installed(fs, s) == bm_get_binary_path(s) \in fs

\* ------------------------------------------------------------ state
VARIABLES
  processes,   \* ProcessManager.processes: ServiceId -> ProcessInfo (partial)
  os,          \* the OS process table: pid -> [svc, st], children not yet reaped
  fs,          \* the paths that exist under the data root (files, directories)
  chain,       \* the node's persisted chain: [height, wallet]
  call,        \* the call that is returning: [op, arg, after, res, out, events]
  nsteps,      \* supervisor calls made and faults of the environment so far;
               \* for the provisioner, the calls that used the network
  log_buffer,  \* ProcessManager.log_buffer: the entries kept, oldest first
  appended,    \* how many entries were appended since the buffer was last empty
               \* by construction or by clear_logs
  threads,     \* the threads that use the log buffer, statement by statement:
               \* thread -> [pc, arg, local]
  readers,     \* the pairs of reader threads launched so far, one per spawn, with
               \* the pipes they read: [svc, pid, written, unread, done]
  tasks,       \* the command handlers in flight and their guard on the shared
               \* state: task -> [cmd, pc, guard]
  checksums_cache,  \* BinaryManager.checksums_cache: None, or Some(manifest)
  fetches,     \* requests for the checksum manifest sent by this BinaryManager
  content      \* what the files the provisioner wrote hold: path -> the bytes
               \* received ("published", "other") or "partial"

vars == <<processes, os, fs, chain, call, nsteps, log_buffer, appended, threads,
          readers, tasks, checksums_cache, fetches, content>>

\* The state of the log buffer and of its users, and the state of the
\* provisioner.
logVars == <<log_buffer, appended, threads, readers, tasks>>
bmVars == <<checksums_cache, fetches, content>>

\* ------------------------------------------------------------ helpers
Put(f, k, v) == [x \in DOMAIN f \cup {k} |-> IF x = k THEN v ELSE f[x]]
Remove(f, k) == [x \in DOMAIN f \ {k} |-> f[x]]
Range(q) == {q[i] : i \in 1..Len(q)}
None == <<>>
Some(v) == <<v>>

\* Result<(), String>: the error keeps what the message is built from.
Ok == [ok |-> TRUE, kind |-> "ok", detail |-> <<>>]
Err(kind, detail) == [ok |-> FALSE, kind |-> kind, detail |-> detail]
\* A call that has not returned: wait() blocked on a process that never exits.
Blocked == [ok |-> FALSE, kind |-> "blocked", detail |-> <<>>]

\* One effect of a call on the operating system, or one step of the call.
Event(e, s, p) == [ev |-> e, svc |-> s, pid |-> p]

\* The supervisor and the part of the world it acts on, threaded through a call.
Machine == [processes |-> processes, os |-> os, fs |-> fs, chain |-> chain,
            events |-> <<>>]

\* The pid of a new child: one that no child in the process table and no Child
\* handle holds.  Which number it is carries no meaning, so the choice is
\* made canonical: the service's position in the catalog, plus a multiple of 6.
Position(service) == CHOOSE i \in 1..Len(all) : all[i] = service
FreshPid(m, service) ==
  LET used == DOMAIN m.os \cup {m.processes[s].pid : s \in DOMAIN m.processes}
      k == CHOOSE j \in 0..Cardinality(used) :
             /\ Position(service) + 6 * j \notin used
             /\ \A i \in 0..(j - 1) : Position(service) + 6 * i \in used
  IN Position(service) + 6 * k

Running(table, p) == p \in DOMAIN table /\ table[p].st = "running"

DataDir(name) == Append(get_runtime_dir, name)

\* ------------------------------------------------------------ start_service
\* The directories start_service ensures before it spawns (results ignored).
EnsuredDirs == <<DataDir("bitcoin"), DataDir("metashrew"), DataDir("esplora"), get_logs_dir>>

\* Faulty variant: only the logs directory is ensured.
create_dirs_logs_only(m) ==
  [m EXCEPT !.fs = @ \cup {get_logs_dir},
            !.events = Append(@, Event("create_dir_all", get_logs_dir[Len(get_logs_dir)], 0))]

create_dirs(m) ==
  [m EXCEPT !.fs = @ \cup Range(EnsuredDirs),
            !.events = @ \o [i \in 1..Len(EnsuredDirs) |->
                               Event("create_dir_all", EnsuredDirs[i][Len(EnsuredDirs[i])], 0)]]

\* cmd.spawn() succeeded: the child exists, its two readers are launched, and the
\* record is inserted (HashMap::insert replaces a record of the same key).
spawned(m, service) ==
  LET pid == FreshPid(m, service)
  IN [m EXCEPT !.os = Put(@, pid, [svc |-> service, st |-> "running"]),
               !.processes = Put(@, service,
                                 [pid |-> pid, started_at |-> "Instant::now",
                                  status |-> "Starting", reaped |-> None]),
               !.events = @ \o <<Event("spawn", service, pid),
                                 Event("reader_stdout", service, pid),
                                 Event("reader_stderr", service, pid)>>]

\* The two reader threads spawn launches own the read ends of the child's
\* stdout and stderr; written and unread count the lines the child wrote to
\* each pipe and those still in it, done tells which loops have ended.
Streams == {"stdout", "stderr"}
launched(rs, events) ==
  LET spawns == SelectSeq(events, LAMBDA e : e.ev = "reader_stdout")
  IN rs \o [i \in 1..Len(spawns) |->
              [svc |-> spawns[i].svc, pid |-> spawns[i].pid,
               written |-> [s \in Streams |-> 0], unread |-> [s \in Streams |-> 0],
               done |-> [s \in Streams |-> FALSE]]]

\* Faulty variant: no "already running" check; a second start spawns a second
\* process and its record replaces the first.
start_service_unchecked(m, service, spawn_ok) ==
  IF get_binary_path(service) \notin m.fs
  THEN [m |-> m, res |-> Err("binary_not_found", get_binary_path(service))]
  ELSE LET m1 == create_dirs(m)
       IN IF spawn_ok
          THEN [m |-> spawned(m1, service), res |-> Ok]
          ELSE [m |-> m1, res |-> Err("spawn_failed", <<display_name(service)>>)]

\* Faulty variant: the "already running" check is made after the spawn; the
\* record is kept, the error is returned, and the second process runs on.
start_service_late_check(m, service, spawn_ok) ==
  IF get_binary_path(service) \notin m.fs
  THEN [m |-> m, res |-> Err("binary_not_found", get_binary_path(service))]
  ELSE LET m1 == create_dirs(m)
       IN IF ~spawn_ok
          THEN [m |-> m1, res |-> Err("spawn_failed", <<display_name(service)>>)]
          ELSE IF service \in DOMAIN m.processes
          THEN [m |-> [spawned(m1, service) EXCEPT !.processes = m.processes],
                res |-> Err("already_running", <<display_name(service)>>)]
          ELSE [m |-> spawned(m1, service), res |-> Ok]

\* spawn_ok: whether the operating system lets cmd.spawn() succeed.
start_service(m, service, spawn_ok) ==
  IF service \in DOMAIN m.processes
  THEN [m |-> m, res |-> Err("already_running", <<display_name(service)>>)]
  ELSE IF get_binary_path(service) \notin m.fs
  THEN [m |-> m, res |-> Err("binary_not_found", get_binary_path(service))]
  ELSE LET m1 == create_dirs(m)
       IN IF spawn_ok
          THEN [m |-> spawned(m1, service), res |-> Ok]
          ELSE [m |-> m1, res |-> Err("spawn_failed", <<display_name(service)>>)]

\* ------------------------------------------------------------ stop_service
\* kill(pid, sig) on the process table.  SIGTERM ends a running process only if
\* it honours it within the grace period; SIGKILL always ends a running process.
kill(table, pid, sig, honours) ==
  IF ~Running(table, pid) THEN table
  ELSE IF sig = "SIGKILL" \/ honours THEN [table EXCEPT ![pid].st = "signaled"]
  ELSE table

\* An ended child leaves the table when it is reaped, or when the last handle
\* that could reap it is gone.
forget(table, pid) ==
  IF pid \in DOMAIN table /\ table[pid].st # "running" THEN Remove(table, pid) ELSE table

\* child.wait(): the cached status if the child was reaped before; otherwise an
\* error if the system call fails, the exit status once the process has ended
\* (which reaps the child), and no return while it runs.  The handle is dropped
\* by the caller afterwards.
wait(m, info, wait_fails) ==
  IF info.reaped # None THEN [m |-> m, res |-> Ok]
  ELSE IF wait_fails
  THEN [m |-> [m EXCEPT !.os = forget(@, info.pid)], res |-> Err("wait_failed", <<>>)]
  ELSE IF Running(m.os, info.pid) THEN [m |-> m, res |-> Blocked]
  ELSE [m |-> [m EXCEPT !.os = forget(@, info.pid)], res |-> Ok]

\* Faulty variant: the record is dropped and nothing is signalled or awaited.
stop_service_forgetting(m, service, honours, wait_fails) ==
  IF service \in DOMAIN m.processes
  THEN [m |-> [m EXCEPT !.processes = Remove(@, service),
                        !.events = Append(@, Event("remove", service,
                                                   m.processes[service].pid))],
        res |-> Ok]
  ELSE [m |-> m, res |-> Ok]

\* Faulty variant: SIGTERM and the grace period only, no SIGKILL before wait.
stop_service_graceful_only(m, service, honours, wait_fails) ==
  IF service \in DOMAIN m.processes
  THEN LET info == m.processes[service]
           pid == info.pid
           m1 == [m EXCEPT !.processes = Remove(@, service),
                           !.events = Append(@, Event("remove", service, pid))]
           t == kill(m1.os, pid, "SIGTERM", honours)
           m2 == [m1 EXCEPT !.os = t,
                            !.events = @ \o <<Event("SIGTERM", service, pid),
                                              Event("grace_sleep", service, pid),
                                              Event(IF Running(t, pid) THEN "still_running"
                                                    ELSE "has_ended", service, pid)>>]
           w == wait([m2 EXCEPT !.events = Append(@, Event("wait", service, pid))],
                     info, wait_fails)
       IN [m |-> w.m,
           res |-> IF w.res.kind = "wait_failed"
                   THEN Err("wait_failed", <<display_name(service)>>)
                   ELSE w.res]
  ELSE [m |-> m, res |-> Ok]

stop_service(m, service, honours, wait_fails) ==
  IF service \in DOMAIN m.processes
  THEN LET info == m.processes[service]
           pid == info.pid
           m1 == [m EXCEPT !.processes = Remove(@, service),
                           !.events = Append(@, Event("remove", service, pid))]
           t == kill(m1.os, pid, "SIGTERM", honours)
           m2 == [m1 EXCEPT !.os = t,
                            !.events = @ \o <<Event("SIGTERM", service, pid),
                                              Event("grace_sleep", service, pid),
                                              Event(IF Running(t, pid) THEN "still_running"
                                                    ELSE "has_ended", service, pid)>>]
           m3 == [m2 EXCEPT !.os = kill(@, pid, "SIGKILL", honours),
                            !.events = Append(@, Event("SIGKILL", service, pid))]
           w == wait([m3 EXCEPT !.events = Append(@, Event("wait", service, pid))],
                     info, wait_fails)
       IN [m |-> w.m,
           res |-> IF w.res.kind = "wait_failed"
                   THEN Err("wait_failed", <<display_name(service)>>)
                   ELSE w.res]
  ELSE [m |-> m, res |-> Ok]

\* ------------------------------------------------------------ bootstrap
Maturity == 101

BootFaults == {"none", "listwallets", "createwallet", "getnewaddress",
               "getblockcount", "no_height", "generatetoaddress", "panic"}

\* One RPC of the bootstrap: the method and its numeric parameter or reading.
Rpc(method, n) == Event("rpc", method, n)

\* The RPCs every bootstrap that reaches getblockcount has made before it.
WalletRpcs(listed) ==
  <<Rpc("listwallets", 0)>> \o (IF listed THEN <<>> ELSE <<Rpc("createwallet", 0)>>)
    \o <<Rpc("loadwallet", 0), Rpc("getnewaddress", 0)>>

\* Faulty variant: the number of blocks to mine does not depend on the height.
bootstrap_wallet_sync_fixed(c, fault, listed) ==
  LET failed(c1, method, rpcs) ==
        [chain |-> c1, res |-> Err("rpc", <<method>>), rpcs |-> rpcs, mined |-> 0]
  IN IF fault \in {"panic", "listwallets", "createwallet", "getnewaddress", "getblockcount"}
     THEN failed(c, fault, <<>>)
     ELSE LET c1 == [c EXCEPT !.wallet = TRUE]
              current_height == IF fault = "no_height" THEN 0 ELSE c1.height
              blocks_to_mine == Maturity
              rpcs == WalletRpcs(listed /\ c.wallet)
                        \o <<Rpc("getblockcount", current_height),
                             Rpc("generatetoaddress", blocks_to_mine)>>
          IN IF fault = "generatetoaddress" THEN failed(c1, fault, rpcs)
             ELSE [chain |-> [c1 EXCEPT !.height = @ + blocks_to_mine], res |-> Ok,
                   rpcs |-> rpcs, mined |-> blocks_to_mine]

\* bootstrap_wallet_sync against the node's chain c.  fault: the RPC that fails
\* (or the thread panicking before its first RPC; no_height: getblockcount is
\* answered without a numeric result); listed: whether listwallets reports the
\* dev wallet (it can only if the wallet exists).  rpcs: the RPCs answered,
\* mined: the blocks the node mined for it.
bootstrap_wallet_sync(c, fault, listed) ==
  LET failed(c1, method, rpcs) ==
        [chain |-> c1, res |-> Err("rpc", <<method>>), rpcs |-> rpcs, mined |-> 0]
      known == listed /\ c.wallet
  IN IF fault = "panic"
     THEN [chain |-> c, res |-> Err("panicked", <<>>), rpcs |-> <<>>, mined |-> 0]
     ELSE IF fault = "listwallets" THEN failed(c, "listwallets", <<>>)
     ELSE IF ~known /\ fault = "createwallet"
     THEN failed(c, "createwallet", <<Rpc("listwallets", 0)>>)
     ELSE LET c1 == [c EXCEPT !.wallet = TRUE]   \* created, or -4 "already exists"
              created == SubSeq(WalletRpcs(known), 1, Len(WalletRpcs(known)) - 1)
          IN IF fault = "getnewaddress" THEN failed(c1, "getnewaddress", created)
             ELSE IF fault = "getblockcount"
             THEN failed(c1, "getblockcount", WalletRpcs(known))
             ELSE LET \* result.as_u64().unwrap_or(0)
                      current_height == IF fault = "no_height" THEN 0 ELSE c1.height
                      asked == Append(WalletRpcs(known), Rpc("getblockcount", current_height))
                  IN IF current_height < Maturity
                     THEN \* current_height as u32 is below Maturity here: no wrap.
                          LET blocks_to_mine == Maturity - current_height
                              mining == Append(asked, Rpc("generatetoaddress", blocks_to_mine))
                          IN IF fault = "generatetoaddress"
                             THEN failed(c1, "generatetoaddress", asked)
                             ELSE [chain |-> [c1 EXCEPT !.height = @ + blocks_to_mine],
                                   res |-> Ok, rpcs |-> mining, mined |-> blocks_to_mine]
                     ELSE [chain |-> c1, res |-> Ok, rpcs |-> asked, mined |-> 0]

\* ------------------------------------------------------------ faulty orders
\* Faulty variant: the services taken in the order of their ids.
StartOrderById == <<JsonRpc, Bitcoind, Esplora, Memshrew, Metashrew, Ord>>

\* Faulty variant: stop_all walking the start order without reversing it.
StopOrderForward == <<Bitcoind, Metashrew, Memshrew, Ord, Esplora, JsonRpc>>

\* ------------------------------------------------------------ start_all
StartOrder == <<Bitcoind, Metashrew, Memshrew, Ord, Esplora, JsonRpc>>

\* Faulty variant: the bootstrap follows the start of every service.
after_start_bootstrapping(m, service, boot) ==
  LET b == bootstrap_wallet_sync(m.chain, boot.fault, boot.listed)
  IN [m EXCEPT !.chain = b.chain,
               !.events = @ \o <<Event("sleep", service, 2000),
                                 Event("bootstrap", b.res.kind, 0)>>]

\* The part of start_all's loop body after a successful start_service.
after_start(m, service, boot) ==
  IF service = Bitcoind
  THEN LET b == bootstrap_wallet_sync(m.chain, boot.fault, boot.listed)
       IN [m EXCEPT !.chain = b.chain,
                    !.events = @ \o <<Event("sleep", service, 2000),
                                      Event("bootstrap", b.res.kind, 0)>>]
  ELSE [m EXCEPT !.events = Append(@, Event("sleep", service, 500))]

\* Faulty variant: a failing start_service is remembered and the loop goes on;
\* the first error is returned at the end.
RECURSIVE start_rest(_, _, _, _, _)
start_rest(m, i, spawn_fail, boot, first) ==
  IF i > Len(StartOrder) THEN [m |-> m, res |-> first]
  ELSE LET service == StartOrder[i]
           r == start_service([m EXCEPT !.events = Append(@, Event("start_service", service, 0))],
                              service, service \notin spawn_fail)
       IN IF ~r.res.ok
          THEN start_rest(r.m, i + 1, spawn_fail, boot, IF first.ok THEN r.res ELSE first)
          ELSE start_rest(after_start(r.m, service, boot), i + 1, spawn_fail, boot, first)

start_from_continuing(m, i, spawn_fail, boot) == start_rest(m, i, spawn_fail, boot, Ok)

\* Faulty variant: a failing bootstrap ends start_all with its error.
RECURSIVE start_from_bootstrap_fatal(_, _, _, _)
start_from_bootstrap_fatal(m, i, spawn_fail, boot) ==
  IF i > Len(StartOrder) THEN [m |-> m, res |-> Ok]
  ELSE LET service == StartOrder[i]
           r == start_service([m EXCEPT !.events = Append(@, Event("start_service", service, 0))],
                              service, service \notin spawn_fail)
           b == bootstrap_wallet_sync(m.chain, boot.fault, boot.listed)
       IN IF ~r.res.ok THEN r
          ELSE IF service = Bitcoind /\ ~b.res.ok
          THEN [m |-> after_start(r.m, service, boot), res |-> b.res]
          ELSE start_from_bootstrap_fatal(after_start(r.m, service, boot), i + 1,
                                          spawn_fail, boot)

\* start_all's loop from position i of the order.  spawn_fail: the services
\* whose spawn the operating system refuses during this call.
RECURSIVE start_from(_, _, _, _)
start_from(m, i, spawn_fail, boot) ==
  IF i > Len(StartOrder) THEN [m |-> m, res |-> Ok]
  ELSE LET service == StartOrder[i]
           r == start_service([m EXCEPT !.events = Append(@, Event("start_service", service, 0))],
                              service, service \notin spawn_fail)
       IN IF ~r.res.ok THEN r
          ELSE start_from(after_start(r.m, service, boot), i + 1, spawn_fail, boot)

start_all(m, spawn_fail, boot) == start_from(m, 1, spawn_fail, boot)

\* ------------------------------------------------------------ stop_all
StopOrder == <<JsonRpc, Esplora, Ord, Memshrew, Metashrew, Bitcoind>>

\* stop_all's loop from position i of the order.  stubborn: the services whose
\* process ignores SIGTERM; wait_fail: those whose wait() fails.
RECURSIVE stop_from(_, _, _, _)
stop_from(m, i, stubborn, wait_fail) ==
  IF i > Len(StopOrder) THEN [m |-> m, res |-> Ok]
  ELSE LET service == StopOrder[i]
           r == stop_service([m EXCEPT !.events = Append(@, Event("stop_service", service, 0))],
                             service, service \notin stubborn, service \in wait_fail)
       IN IF ~r.res.ok THEN r
          ELSE stop_from(r.m, i + 1, stubborn, wait_fail)

stop_all(m, stubborn, wait_fail) == stop_from(m, 1, stubborn, wait_fail)

\* ------------------------------------------------------------ kill_orphans
OrphanBinaries == <<"bitcoind", "rockshrew-mono", "memshrew-p2p", "ord", "flextrs", "jsonrpc">>
OrphanPorts == <<18443, 18444, 8080, 8081, 8090, 50010, 18888>>

\* pkill -x by binary name, then kill -9 of whatever listens on the known ports,
\* every failure swallowed.  survivors: the running processes that neither
\* step reaches (wrong name, not listening, the kill refused).
kill_orphans(m, survivors) ==
  [m EXCEPT !.os = [p \in DOMAIN @ |->
                      IF @[p].st = "running" /\ p \notin survivors
                      THEN [@[p] EXCEPT !.st = "signaled"] ELSE @[p]],
            !.events = @ \o [i \in 1..Len(OrphanBinaries) |-> Event("pkill", OrphanBinaries[i], 0)]
                         \o [i \in 1..Len(OrphanPorts) |-> Event("kill_port", "", OrphanPorts[i])]
                         \o <<Event("sleep", "", 100)>>]

\* ------------------------------------------------------------ reset_data
ResetDirs == <<DataDir("bitcoin"), DataDir("metashrew"), DataDir("esplora"), DataDir("ord")>>
RemoveAttempts == 3

\* std::fs::remove_dir_all succeeding; the node's chain lives in its data directory.
remove_dir_all(m, dir) ==
  [m EXCEPT !.fs = @ \ {dir},
            !.chain = IF dir = DataDir("bitcoin") THEN [height |-> 0, wallet |-> FALSE] ELSE @,
            !.events = Append(@, Event("remove_dir_all", dir[Len(dir)], 1))]

\* Faulty variant: the attempts are counted down one failure too late, so a
\* fourth attempt is made.
RECURSIVE remove_retry_once_more(_, _, _, _)
remove_retry_once_more(m, dir, attempts, fails) ==
  IF fails > 0
  THEN LET m1 == [m EXCEPT !.events = @ \o <<Event("remove_dir_all", dir[Len(dir)], 0),
                                             Event("sleep", "", 1000)>>]
       IN IF attempts = 0
          THEN [m |-> m1, res |-> Err("remove_failed", dir)]
          ELSE remove_retry_once_more(m1, dir, attempts - 1, fails - 1)
  ELSE [m |-> remove_dir_all(m, dir), res |-> Ok]

\* The retry loop on one directory; fails: how many more attempts will fail.
RECURSIVE remove_retry(_, _, _, _)
remove_retry(m, dir, attempts, fails) ==
  IF attempts > 0
  THEN IF fails > 0
       THEN LET m1 == [m EXCEPT !.events = @ \o <<Event("remove_dir_all", dir[Len(dir)], 0),
                                                  Event("sleep", "", 1000)>>]
            IN IF attempts - 1 = 0
               THEN [m |-> m1, res |-> Err("remove_failed", dir)]
               ELSE remove_retry(m1, dir, attempts - 1, fails - 1)
       ELSE [m |-> remove_dir_all(m, dir), res |-> Ok]
  ELSE [m |-> m, res |-> Ok]

\* reset_data's loop over the data directories from position i; rm_fails[dir]:
\* how many removal attempts on dir fail before one would succeed.
RECURSIVE remove_from(_, _, _)
remove_from(m, i, rm_fails) ==
  IF i > Len(ResetDirs) THEN [m |-> m, res |-> Ok]
  ELSE LET dir == ResetDirs[i]
       IN IF dir \in m.fs
          THEN LET r == remove_retry(m, dir, RemoveAttempts, rm_fails[dir])
               IN IF ~r.res.ok THEN r ELSE remove_from(r.m, i + 1, rm_fails)
          ELSE remove_from(m, i + 1, rm_fails)

\* Faulty variant: an error of stop_all is returned at once.
reset_data_strict(m, stubborn, wait_fail, survivors, rm_fails) ==
  LET s == stop_all(m, stubborn, wait_fail)
  IN IF ~s.res.ok THEN s
     ELSE LET m1 == [s.m EXCEPT !.events = @ \o <<Event("stop_all", s.res.kind, 0),
                                                   Event("sleep", "", 2000)>>]
              m2 == kill_orphans(m1, survivors)
              m3 == [m2 EXCEPT !.events = Append(@, Event("sleep", "", 500))]
          IN remove_from(m3, 1, rm_fails)

reset_data(m, stubborn, wait_fail, survivors, rm_fails) ==
  LET s == stop_all(m, stubborn, wait_fail)
  IN IF s.res.kind = "blocked" THEN s
     ELSE LET m1 == [s.m EXCEPT !.events = @ \o <<Event("stop_all", s.res.kind, 0),
                                                   Event("sleep", "", 2000)>>]
              m2 == kill_orphans(m1, survivors)
              m3 == [m2 EXCEPT !.events = Append(@, Event("sleep", "", 500))]
          IN remove_from(m3, 1, rm_fails)

\* ------------------------------------------------------------ status
\* child.try_wait(): the cached status if the child was reaped before; an
\* error if the poll fails; nothing while the process runs; otherwise the exit
\* status, which reaps the child and is cached in the handle.
try_wait(m, service, poll_fails) ==
  LET info == m.processes[service]
      polled(r) == [m EXCEPT !.events = Append(@, Event("try_wait", r, info.pid))]
  IN IF info.reaped # None THEN [m |-> polled("exited"), r |-> "exited", st |-> info.reaped[1]]
     ELSE IF poll_fails THEN [m |-> polled("error"), r |-> "error", st |-> ""]
     ELSE IF Running(m.os, info.pid) THEN [m |-> polled("running"), r |-> "running", st |-> ""]
     ELSE [m |-> [polled("exited") EXCEPT
                    !.os = Remove(@, info.pid),
                    !.processes[service].reaped = Some(m.os[info.pid].st)],
           r |-> "exited", st |-> m.os[info.pid].st]

\* BinaryManager::check_binary(..).status.into_version(): the probed version of
\* an installed binary ("unknown" when the probe fails or there is none).
installed_version(m, service, probe_ok) ==
  IF is_installed(m.fs, service)
  THEN Some(IF service # JsonRpc /\ probe_ok THEN "probed" ELSE "unknown")
  ELSE None

\* started_at.elapsed().as_secs(): time is not modelled, the reading is a token.
elapsed_secs(started_at) == "elapsed"

status_str(status) ==
  CASE status = "Stopped" -> "stopped"
    [] status = "Starting" -> "starting"
    [] status = "Running" -> "running"
    [] status = "Error" -> "error"

\* Faulty variant: the pid and the uptime of the record are reported whatever
\* the poll says.
get_service_info_stale_pid(m, service, poll_fails, probe_ok) ==
  LET t == IF service \in DOMAIN m.processes
           THEN LET w == try_wait(m, service, poll_fails)
                    info == m.processes[service]
                IN [m |-> w.m, pid |-> Some(info.pid),
                    uptime |-> Some(elapsed_secs(info.started_at)),
                    status |-> CASE w.r = "exited" ->
                                      IF w.st = "exit_ok" THEN "Stopped" ELSE "Error"
                                 [] w.r = "running" -> "Running"
                                 [] w.r = "error" -> "Error"]
           ELSE [m |-> m, status |-> "Stopped", pid |-> None, uptime |-> None]
  IN [m |-> t.m,
      info |-> [id |-> id(service), name |-> display_name(service),
                status |-> status_str(t.status), pid |-> t.pid,
                port |-> get_port_for_service(service), uptime_secs |-> t.uptime,
                version |-> installed_version(m, service, probe_ok)]]

get_service_info(m, service, poll_fails, probe_ok) ==
  LET t == IF service \in DOMAIN m.processes
           THEN LET w == try_wait(m, service, poll_fails)
                    info == m.processes[service]
                IN CASE w.r = "exited" ->
                          [m |-> w.m, pid |-> None, uptime |-> None,
                           status |-> IF w.st = "exit_ok" THEN "Stopped" ELSE "Error"]
                     [] w.r = "running" ->
                          [m |-> w.m, status |-> "Running", pid |-> Some(info.pid),
                           uptime |-> Some(elapsed_secs(info.started_at))]
                     [] w.r = "error" ->
                          [m |-> w.m, status |-> "Error", pid |-> None, uptime |-> None]
           ELSE [m |-> m, status |-> "Stopped", pid |-> None, uptime |-> None]
  IN [m |-> t.m,
      info |-> [id |-> id(service), name |-> display_name(service),
                status |-> status_str(t.status), pid |-> t.pid,
                port |-> get_port_for_service(service), uptime_secs |-> t.uptime,
                version |-> installed_version(m, service, probe_ok)]]

\* get_all_status: get_service_info over ServiceId::all(), in order.
\* poll_fail: the services whose try_wait fails; probe_ok: whether the version
\* probes succeed.
RECURSIVE status_from(_, _, _, _, _)
status_from(m, i, poll_fail, probe_ok, acc) ==
  IF i > Len(all) THEN [m |-> m, out |-> acc]
  ELSE LET g == get_service_info(m, all[i], all[i] \in poll_fail, probe_ok)
       IN status_from(g.m, i + 1, poll_fail, probe_ok, Append(acc, g.info))

get_all_status(m, poll_fail, probe_ok) == status_from(m, 1, poll_fail, probe_ok, <<>>)

\* ------------------------------------------------------------ logs
MAX_LOG_ENTRIES == 1000

\* The entry a reader thread builds for a line; the wall clock is not modelled.
LogEntry(service, line, is_stderr) ==
  [service |-> id(service), timestamp |-> "SystemTime::now", message |-> line,
   is_stderr |-> is_stderr]

\* Faulty variant: on overflow the newest entries are cut off, not the oldest.
add_log_entry_truncating(buffer, entry) ==
  LET logs == Append(buffer, entry)
  IN IF Len(logs) > MAX_LOG_ENTRIES THEN SubSeq(logs, 1, MAX_LOG_ENTRIES) ELSE logs

\* add_log_entry under the buffer's lock: push, then drain(0..excess).
add_log_entry(buffer, entry) ==
  LET logs == Append(buffer, entry)
  IN IF Len(logs) > MAX_LOG_ENTRIES
     THEN LET excess == Len(logs) - MAX_LOG_ENTRIES
          IN SubSeq(logs, excess + 1, Len(logs))
     ELSE logs

\* Faulty variant: the first `limit` entries are returned, not the last.
get_logs_from_start(buffer, service_filter, limit) ==
  LET filtered == IF service_filter # None
                  THEN SelectSeq(buffer, LAMBDA l : l.service = service_filter[1])
                  ELSE buffer
      end == IF Len(filtered) > limit THEN limit ELSE Len(filtered)
  IN SubSeq(filtered, 1, end)

\* get_logs under the buffer's lock.
get_logs(buffer, service_filter, limit) ==
  LET filtered == IF service_filter # None
                  THEN SelectSeq(buffer, LAMBDA l : l.service = service_filter[1])
                  ELSE buffer
      \* filtered.len().saturating_sub(limit)
      start == IF Len(filtered) > limit THEN Len(filtered) - limit ELSE 0
  IN SubSeq(filtered, start + 1, Len(filtered))

clear_logs(buffer) == <<>>

\* ---- the buffer's lock
\* The threads that share the buffer: the reader of the stdout and the reader
\* of the stderr of a running service, a caller of get_logs and a caller of
\* clear_logs.
Threads == {"stdout", "stderr", "query", "clear"}
OpOf(t) == CASE t \in {"stdout", "stderr"} -> "add_log_entry"
             [] t = "query" -> "get_logs"
             [] t = "clear" -> "clear_logs"

\* Faulty variant: add_log_entry gives the lock back after the push and takes
\* it again for the drain.
Program_relocking(op) ==
  CASE op = "add_log_entry" -> <<"lock", "push", "unlock", "lock", "drain", "unlock">>
    [] op = "get_logs" -> <<"lock", "filter", "slice", "unlock">>
    [] op = "clear_logs" -> <<"lock", "clear", "unlock">>

\* The statements of each operation on the buffer, in program order; the guard
\* taken by lock() is dropped at the end of the function.
Program(op) ==
  CASE op = "add_log_entry" -> <<"lock", "push", "drain", "unlock">>
    [] op = "get_logs" -> <<"lock", "filter", "slice", "unlock">>
    [] op = "clear_logs" -> <<"lock", "clear", "unlock">>

\* No thread is inside an operation.
NoThreads ==
  [t \in Threads |-> [pc |-> 1, arg |-> [filter |-> None, limit |-> 0], local |-> <<>>]]

\* Whether the thread in state th, running operation op, holds the lock.
Holds(th, op) ==
  LET done == SubSeq(Program(op), 1, th.pc - 1)
  IN Len(SelectSeq(done, LAMBDA s : s = "lock")) > Len(SelectSeq(done, LAMBDA s : s = "unlock"))

\* ------------------------------------------------------------ health
\* PortConfig::default(): the ports of the configuration the calls are given.
ports == [bitcoind_rpc |-> 18443, bitcoind_p2p |-> 18444, metashrew |-> 8080,
          memshrew |-> 8081, ord |-> 8090, esplora_http |-> 50010,
          esplora_electrum |-> 50001, jsonrpc |-> 18888]

\* The URL check_health probes, on 127.0.0.1.
health_url(service) ==
  CASE service = Bitcoind -> [port |-> ports.bitcoind_rpc, path |-> ""]
    [] service = Metashrew -> [port |-> ports.metashrew, path |-> ""]
    [] service = Memshrew -> [port |-> ports.memshrew, path |-> ""]
    [] service = Ord -> [port |-> ports.ord, path |-> "/status"]
    [] service = Esplora -> [port |-> ports.esplora_http, path |-> "/blocks/tip/height"]
    [] service = JsonRpc -> [port |-> ports.jsonrpc, path |-> ""]

\* What a GET within the 2 s timeout can come to: no connection, no answer in
\* time, or a response with a status code.
Responses == {"connect_error", "timeout", "200", "204", "401", "403", "404", "405", "500"}
is_success(status) == status \in {"200", "204"}

\* Faulty variant: the probe is sent whether or not the service is tracked.
check_health_probe_only(m, service, response) ==
  [m |-> [m EXCEPT !.events = Append(@, Event("http_get", health_url(service).path,
                                              health_url(service).port))],
   healthy |-> is_success(response) \/ response \in {"401", "405", "404"}]

\* Faulty variant: only a success status counts as a sign of life.
check_health_success_only(m, service, response) ==
  IF service \notin DOMAIN m.processes
  THEN [m |-> m, healthy |-> FALSE]
  ELSE [m |-> [m EXCEPT !.events = Append(@, Event("http_get", health_url(service).path,
                                                   health_url(service).port))],
        healthy |-> is_success(response)]

\* response: what the probe comes to if it is sent (what answers on the port).
check_health(m, service, response) ==
  IF service \notin DOMAIN m.processes
  THEN [m |-> m, healthy |-> FALSE]
  ELSE [m |-> [m EXCEPT !.events = Append(@, Event("http_get", health_url(service).path,
                                                   health_url(service).port))],
        healthy |-> is_success(response) \/ response \in {"401", "405", "404"}]

\* ------------------------------------------------------------ provisioner
\* BinaryManager of the desktop application.  The build is the unix one for
\* linux on x86_64; sizes are in megabytes.  A checksum is the pair of the
\* bytes it was computed from and the case of its hex digits; "" is <<>>.
Payloads == {"published", "other"}
hex_sha256(bytes) == <<bytes, "lower">>
embedded_sha == hex_sha256("published")

\* get_releases_for_platform
releases(service) ==
  CASE service = Bitcoind ->
         [version |-> "29.2", filename |-> "bitcoin-29.2-x86_64-linux-gnu.tar.gz",
          sha256 |-> embedded_sha, size_bytes |-> 45,
          archive_path |-> Some("bitcoin-29.2/bin/bitcoind"), is_archive |-> TRUE]
    [] service = Ord ->
         [version |-> "0.22.1", filename |-> "ord-0.22.1-x86_64-unknown-linux-gnu.tar.gz",
          sha256 |-> <<>>, size_bytes |-> 15,
          archive_path |-> Some("ord"), is_archive |-> TRUE]
    [] service = Metashrew ->
         [version |-> "9.0.2-alpha.1", filename |-> "rockshrew-mono-linux-x86_64",
          sha256 |-> <<>>, size_bytes |-> 25,
          archive_path |-> None, is_archive |-> FALSE]
    [] service = Memshrew ->
         [version |-> "9.0.1", filename |-> "memshrew-p2p-v9.0.1-linux-x86_64",
          sha256 |-> <<>>, size_bytes |-> 20,
          archive_path |-> None, is_archive |-> FALSE]
    [] service = Esplora ->
         [version |-> "0.4.1", filename |-> "flextrs-linux-x86_64",
          sha256 |-> <<>>, size_bytes |-> 15,
          archive_path |-> None, is_archive |-> FALSE]
    [] service = JsonRpc ->
         [version |-> "0.1.0", filename |-> "alkanes-jsonrpc-bundle.tar.gz",
          sha256 |-> embedded_sha, size_bytes |-> 10,
          archive_path |-> None, is_archive |-> TRUE]

\* The provisioner and the files it acts on, threaded through a call:
\* fs is the set of paths that exist, content what the provisioner's files hold.
Provisioner == [fs |-> fs, content |-> content, checksums_cache |-> checksums_cache,
                fetches |-> fetches]

\* ---- fetch_checksums
\* The manifests the release can publish: none of the files listed, or every
\* file listed with the digest of its published bytes, written in lower-case
\* or in upper-case hex digits.
Manifests ==
  {[f \in {} |-> <<>>]}
    \cup {[f \in {releases(s).filename : s \in ServiceId} |-> <<"published", case>>] :
            case \in {"lower", "upper"}}

\* What the request for the manifest meets.
FetchOutcomes ==
  {[fault |-> f, manifest |-> [x \in {} |-> <<>>]] : f \in {"send", "status", "json"}}
    \cup {[fault |-> "none", manifest |-> c] : c \in Manifests}

\* Faulty variant: the cache is not consulted, every call fetches.
fetch_checksums_uncached(bm, outcome) ==
  LET fetched == [bm EXCEPT !.fetches = @ + 1]
  IN IF outcome.fault = "none"
     THEN [bm |-> [fetched EXCEPT !.checksums_cache = Some(outcome.manifest)], res |-> Ok]
     ELSE [bm |-> fetched, res |-> Ok]

fetch_checksums(bm, outcome) ==
  IF bm.checksums_cache # None THEN [bm |-> bm, res |-> Ok]
  ELSE LET fetched == [bm EXCEPT !.fetches = @ + 1]   \* client.get(CHECKSUMS_URL).send()
       IN IF outcome.fault = "send"
          THEN [bm |-> fetched, res |-> Err("Failed to fetch checksums", "")]
          ELSE IF outcome.fault = "status"
          THEN [bm |-> fetched, res |-> Ok]           \* warns, verification is skipped
          ELSE IF outcome.fault = "json"
          THEN [bm |-> fetched, res |-> Err("Failed to parse checksums", "")]
          ELSE [bm |-> [fetched EXCEPT !.checksums_cache = Some(outcome.manifest)],
                res |-> Ok]

get_checksum_for_file(bm, filename) ==
  IF bm.checksums_cache # None /\ filename \in DOMAIN bm.checksums_cache[1]
  THEN Some(bm.checksums_cache[1][filename])
  ELSE None

\* ---- check_binary
NotInstalled == [status |-> "NotInstalled", version |-> "", latest |-> ""]
Installed(version) == [status |-> "Installed", version |-> version, latest |-> ""]
UpdateAvailable(current, latest) ==
  [status |-> "UpdateAvailable", version |-> current, latest |-> latest]

\* What `<binary> --version` can yield: nothing (the command fails), the
\* version of the release, or another version.
Probes(service) == {None, Some(releases(service).version), Some("0.0.1")}

\* get_binary_version: the bundle of JsonRpc has no version command.
get_binary_version(service, probe) == IF service = JsonRpc THEN None ELSE probe

\* The two builds differ in what an installed binary is reported as: the
\* desktop build reports Installed whenever the file exists; the src-tauri
\* build compares the probed version with the release's.
Policies == {"desktop", "src-tauri"}

\* Faulty variant: a file whose version cannot be probed counts as missing.
check_binary_needs_version(files, service, probe, policy) ==
  IF is_installed(files, service) /\ get_binary_version(service, probe) # None
  THEN Installed(get_binary_version(service, probe)[1])
  ELSE NotInstalled

check_binary(files, service, probe, policy) ==
  LET exists == is_installed(files, service)
      latest_version == releases(service).version
      current_version == IF get_binary_version(service, probe) # None
                         THEN get_binary_version(service, probe)[1]
                         ELSE "unknown"
  IN IF exists
     THEN IF policy = "src-tauri" /\ current_version # latest_version
          THEN UpdateAvailable(current_version, latest_version)
          ELSE Installed(current_version)
     ELSE NotInstalled

\* ---- download
RECURSIVE Sum(_)
Sum(q) == IF q = <<>> THEN 0 ELSE q[1] + Sum(Tail(q))

\* (downloaded as f32 / total_size as f32) * 0.9, in thousandths.
progress_of(downloaded, total_size) == (downloaded * 900) \div total_size

\* The ways the body of a release can arrive: at most MaxChunks chunks, each
\* half the release's nominal size or all of it.
ChunkSizes(release) == {release.size_bytes \div 2, release.size_bytes}
ChunkPlans(release) ==
  UNION {[1..n -> ChunkSizes(release)] : n \in 0..MaxChunks}
WholeBody(release) == {<<release.size_bytes>>}

\* What an archive holds: the entry the release names (for the bundle that is
\* unpacked whole, the directory the service is looked up under), or not.
Layouts(service) ==
  IF releases(service).is_archive
  THEN {{IF releases(service).archive_path # None
         THEN releases(service).archive_path[1] ELSE binary_name(service)},
        {"README.md"}}
  ELSE {{}}

\* The steps of the installation that can fail, by kind of release.
InstallFaults(service) ==
  IF ~releases(service).is_archive THEN {"create", "write", "set_permissions"}
  ELSE IF releases(service).archive_path # None
  THEN {"archive", "create", "write", "set_permissions"}
  ELSE {"archive", "write"}

\* What one download meets: the step that fails if any, whether the server
\* reports a content length, the chunks of the body, the bytes that arrive
\* and, for an archive, what it holds.
DownloadEnvs(service, plans) ==
  LET canonical == CHOOSE l \in Layouts(service) : "README.md" \notin l
  IN {[fault |-> f, content_length |-> None, chunks |-> <<>>, payload |-> "published",
       entries |-> canonical] : f \in {"send", "status"}}
     \cup UNION {{[fault |-> "chunk", content_length |-> len, chunks |-> c,
                   payload |-> "published", entries |-> canonical] :
                     len \in {None, Some(Sum(c) + 1)}} : c \in plans}
     \cup UNION {{[fault |-> f, content_length |-> len, chunks |-> c, payload |-> b,
                   entries |-> l] :
                     f \in InstallFaults(service) \cup {"none"},
                     len \in {None, Some(Sum(c))},
                     b \in Payloads, l \in Layouts(service)} : c \in plans}

\* std::fs::write(path, bytes) followed by set_permissions(0o755).
write_binary(bm, path, bytes, fault, service) ==
  IF fault = "create"             \* File::create fails: nothing is written
  THEN [bm |-> bm, res |-> Err("Failed to write binary", id(service))]
  ELSE IF fault = "write"         \* write_all fails after the file was truncated
  THEN [bm |-> [bm EXCEPT !.fs = @ \cup {path}, !.content = Put(@, path, "partial")],
        res |-> Err("Failed to write binary", id(service))]
  ELSE [bm |-> [bm EXCEPT !.fs = @ \cup {path}, !.content = Put(@, path, bytes)],
        res |-> IF fault = "set_permissions"
                THEN Err("Failed to set permissions", id(service)) ELSE Ok]

extract_binary_from_tar_gz(bm, env, archive_path, dest_path, service) ==
  IF env.fault = "archive"
  THEN [bm |-> bm, res |-> Err("Failed to read archive", id(service))]
  ELSE IF archive_path \notin env.entries
  THEN [bm |-> bm, res |-> Err("Binary not found in archive", id(service))]
  ELSE write_binary(bm, dest_path, env.payload, env.fault, service)

\* Archive::unpack(bin_dir): every entry is written under the bin directory.
unpack(bm, env, service) ==
  LET written == {Append(get_bin_dir, e) : e \in env.entries}
      filled(bytes) == [p \in DOMAIN bm.content \cup written |->
                          IF p \in written THEN bytes ELSE bm.content[p]]
  IN IF env.fault = "archive"
     THEN [bm |-> bm, res |-> Err("Failed to extract archive", id(service))]
     ELSE IF env.fault = "write"
     THEN [bm |-> [bm EXCEPT !.fs = @ \cup written, !.content = filled("partial")],
           res |-> Err("Failed to extract archive", id(service))]
     ELSE [bm |-> [bm EXCEPT !.fs = @ \cup written, !.content = filled(env.payload)],
           res |-> Ok]

install(bm, env, service) ==
  LET release == releases(service)
      dest_path == bm_get_binary_path(service)
  IN IF release.is_archive
     THEN IF release.archive_path # None
          THEN extract_binary_from_tar_gz(bm, env, release.archive_path[1], dest_path, service)
          ELSE unpack(bm, env, service)
     ELSE write_binary(bm, dest_path, env.payload, env.fault, service)

\* Faulty variant: the embedded checksum is preferred to the manifest's.
expected_checksum_embedded_first(bm, release) ==
  IF release.sha256 # <<>> THEN Some(release.sha256)
  ELSE get_checksum_for_file(bm, release.filename)

\* The checksum the payload is verified against, if any.
expected_checksum(bm, release) ==
  IF get_checksum_for_file(bm, release.filename) # None
  THEN get_checksum_for_file(bm, release.filename)
  ELSE IF release.sha256 # <<>> THEN Some(release.sha256) ELSE None

\* Faulty variant: the payload is installed first and verified afterwards.
download_verifying_late(bm, service, env) ==
  LET release == releases(service)
      expected == expected_checksum(bm, release)
      i == install([bm EXCEPT !.fs = @ \cup {get_data_dir, get_bin_dir}],
                   [env EXCEPT !.fault = "none"], service)
      received == <<Event("received", env.payload, 0)>>
  IN IF expected # None /\ hex_sha256(env.payload) # expected[1]
     THEN [bm |-> i.bm, res |-> Err("Checksum verification failed", id(service)),
           progress |-> <<0, 900>>, events |-> received]
     ELSE [bm |-> i.bm, res |-> i.res, progress |-> <<0, 900, 1000>>, events |-> received]

\* download(service, progress_callback): the result, the provisioner and files
\* after it, the values the callback was invoked with (in thousandths), and
\* the bytes received once the body has arrived in full.
download(bm, service, env) ==
  LET release == releases(service)
      made == [bm EXCEPT !.fs = @ \cup {get_data_dir, get_bin_dir}]   \* create_dir_all
      total_size == IF env.content_length # None THEN env.content_length[1]
                    ELSE release.size_bytes
      arriving == [i \in 1..Len(env.chunks) |->
                     progress_of(Sum(SubSeq(env.chunks, 1, i)), total_size)]
      expected == expected_checksum(bm, release)
      digest == hex_sha256(env.payload)
      received == <<Event("received", env.payload, 0)>>
      failed(kind, progress, events) ==
        [bm |-> made, res |-> Err(kind, id(service)), progress |-> progress,
         events |-> events]
  IN IF env.fault = "send" THEN failed("Download failed", <<0>>, <<>>)
     ELSE IF env.fault = "status" THEN failed("Download failed with status", <<0>>, <<>>)
     ELSE IF env.fault = "chunk"
     THEN failed("Failed to read chunk", <<0>> \o arriving, <<>>)
     ELSE IF expected # None /\ digest # expected[1]
     THEN failed("Checksum verification failed", <<0>> \o arriving \o <<900>>, received)
     ELSE LET i == install(made, env, service)
          IN [bm |-> i.bm, res |-> i.res,
              progress |-> <<0>> \o arriving \o <<900>> \o
                           (IF i.res.ok THEN <<1000>> ELSE <<>>),
              events |-> received]

\* ---- download_all
\* Faulty variant: every service is downloaded, whatever its status.
should_download_always(status) == TRUE

should_download(status) == status \in {"NotInstalled", "UpdateAvailable"}

\* The loop of download_all from the i'th service of the catalog on.
RECURSIVE download_from(_, _, _, _, _, _)
download_from(bm, i, policy, probes, envs, events) ==
  IF i > Len(all) THEN [bm |-> bm, res |-> Ok, events |-> events]
  ELSE LET service == all[i]
           status == check_binary(bm.fs, service, probes[service], policy).status
       IN IF should_download(status)
          THEN LET d == download(bm, service, envs[service])
                   attempted == Append(events, Event("download", id(service), 0))
               IN IF d.res.ok
                  THEN download_from(d.bm, i + 1, policy, probes, envs, attempted)
                  ELSE [bm |-> d.bm, res |-> d.res,
                        events |-> Append(attempted, Event("download_failed", id(service), 0))]
          ELSE download_from(bm, i + 1, policy, probes, envs, events)

\* download_all: the desktop build fetches the checksum manifest first, the
\* src-tauri build has none.
download_all(bm, policy, outcome, probes, envs) ==
  LET f == IF policy = "desktop" THEN fetch_checksums(bm, outcome)
           ELSE [bm |-> bm, res |-> Ok]
  IN IF f.res.ok THEN download_from(f.bm, 1, policy, probes, envs, <<>>)
     ELSE [bm |-> f.bm, res |-> f.res, events |-> <<>>]

\* ------------------------------------------------------------ commands
\* The command handlers of the frontend over Arc<RwLock<AppState>>: each one
\* takes a guard on the shared state, calls the supervisor, and drops the guard.
Commands == {"get_status", "start_services", "stop_services", "reset_chain",
             "get_logs", "clear_logs", "check_service_health"}

\* Faulty variant: every handler takes the read guard.
LockOf_read_only(cmd) == "read"

\* state.write().await or state.read().await, by handler.
LockOf(cmd) ==
  CASE cmd = "get_status" -> "write"
    [] cmd = "start_services" -> "write"
    [] cmd = "stop_services" -> "write"
    [] cmd = "reset_chain" -> "write"
    [] cmd = "get_logs" -> "read"
    [] cmd = "clear_logs" -> "read"
    [] cmd = "check_service_health" -> "read"

\* The supervisor call each handler makes under its guard.
BodyOp(cmd) ==
  CASE cmd = "get_status" -> "get_all_status"
    [] cmd = "start_services" -> "start_all"
    [] cmd = "stop_services" -> "stop_all"
    [] cmd = "reset_chain" -> "reset_data"
    [] cmd = "get_logs" -> "get_logs"
    [] cmd = "clear_logs" -> "clear_logs"
    [] cmd = "check_service_health" -> "check_health"

TaskIds == 1..MaxTasks
NoTask == [cmd |-> "", pc |-> "idle", guard |-> "none"]
NoTasks == [t \in TaskIds |-> NoTask]

\* ------------------------------------------------------------ Init
NoProcesses == [s \in {} |-> 0]

\* impl Drop for ProcessManager: `let _ = self.stop_all()`, then the process
\* map goes with the supervisor; dropping the handle of a child does not end
\* the child.
drop(m, stubborn, wait_fail) ==
  LET s == stop_all(m, stubborn, wait_fail)
  IN IF s.res.kind = "blocked" THEN s
     ELSE [m |-> [s.m EXCEPT !.processes = NoProcesses,
                             !.events = Append(@, Event("stop_all", s.res.kind, 0))],
           res |-> Ok]

\* ProcessManager::new(): kill_orphans, then an empty process map.
Init ==
  /\ processes = NoProcesses
  /\ os = NoProcesses
  /\ fs = {}
  /\ chain = [height |-> 0, wallet |-> FALSE]
  /\ call = [op |-> "new", arg |-> "", after |-> "", res |-> Ok, out |-> <<>>,
             events |-> kill_orphans([os |-> NoProcesses, events |-> <<>>], {}).events]
  /\ nsteps = 0
  /\ log_buffer = <<>>
  /\ appended = 0
  /\ threads = NoThreads
  /\ readers = <<>>
  /\ tasks = NoTasks
  /\ checksums_cache = <<>>
  /\ fetches = 0
  /\ content = [p \in {} |-> 0]

\* ------------------------------------------------------------ actions
\* Between calls: the last call (after names it) has returned to its caller.
NoCall(last) ==
  [op |-> "idle", arg |-> "", after |-> last, res |-> Ok, out |-> <<>>, events |-> <<>>]
Idle == call.op = "idle"

CanCall == Idle /\ nsteps < MaxSteps

\* An input that makes at most one of the members of S fail.
AtMostOne(S) == {{}} \cup {{x} : x \in S}

\* A supervisor call returning r (its machine and result) takes effect;
\* faults: how many faults of the environment its inputs contain.
Commit(op, arg, r, out, faults) ==
  /\ nsteps + 1 + faults <= MaxSteps
  /\ processes' = r.m.processes
  /\ os' = r.m.os
  /\ fs' = r.m.fs
  /\ chain' = r.m.chain
  /\ call' = [op |-> op, arg |-> arg, after |-> call.after, res |-> r.res, out |-> out,
              events |-> r.m.events]
  /\ nsteps' = nsteps + 1 + faults
  /\ UNCHANGED <<logVars, bmVars>>

Cost(b) == IF b THEN 1 ELSE 0

StartService(service) ==
  /\ CanCall
  /\ \E spawn_ok \in BOOLEAN :
       Commit("start_service", service, start_service(Machine, service, spawn_ok),
              <<>>, Cost(~spawn_ok))

StopService(service) ==
  /\ CanCall
  /\ \E honours \in BOOLEAN, wait_fails \in BOOLEAN :
       Commit("stop_service", service,
              stop_service(Machine, service, honours, wait_fails), <<>>, Cost(wait_fails))

\* In one call every signalled process honours SIGTERM, or every one ignores it.
Stubborn == {{}, ServiceId}

StartAll ==
  /\ CanCall
  /\ \E spawn_fail \in AtMostOne(ServiceId), fault \in BootFaults, listed \in BOOLEAN :
       /\ listed => chain.wallet
       /\ Commit("start_all", "",
                 start_all(Machine, spawn_fail, [fault |-> fault, listed |-> listed]),
                 <<>>, Cardinality(spawn_fail) + Cost(fault # "none"))

StopAll ==
  /\ CanCall
  /\ \E stubborn \in Stubborn, wait_fail \in AtMostOne(DOMAIN processes) :
       Commit("stop_all", "", stop_all(Machine, stubborn, wait_fail),
              <<>>, Cardinality(wait_fail))

\* rm_fails: one directory resists removal for k attempts, or none does.
RmFailChoices ==
  {[d \in Range(ResetDirs) |-> IF d = stuck THEN k ELSE 0] :
     stuck \in Range(ResetDirs), k \in 0..(RemoveAttempts + 1)}
RmCost(rm_fails) == Cost(\E d \in DOMAIN rm_fails : rm_fails[d] > 0)

ResetData ==
  /\ CanCall
  /\ \E stubborn \in Stubborn,
        wait_fail \in AtMostOne(DOMAIN processes),
        survivors \in AtMostOne(DOMAIN os),
        rm_fails \in RmFailChoices :
       Commit("reset_data", "",
              reset_data(Machine, stubborn, wait_fail, survivors, rm_fails),
              <<>>, Cardinality(wait_fail) + Cardinality(survivors) + RmCost(rm_fails))

GetAllStatus ==
  /\ CanCall
  /\ \E poll_fail \in AtMostOne(DOMAIN processes), probe_ok \in BOOLEAN :
       LET g == get_all_status(Machine, poll_fail, probe_ok)
       IN Commit("get_all_status", "", [m |-> g.m, res |-> Ok], g.out,
                 Cardinality(poll_fail) + Cost(~probe_ok))

\* check_health(service, config); the call's events start with what answers
\* on the service's port at that time, whether or not the probe is sent.
CheckHealth(service) ==
  /\ CanCall
  /\ \E response \in Responses :
       LET seen == [Machine EXCEPT !.events = <<Event("port_answers", response,
                                                      health_url(service).port)>>]
           h == check_health(seen, service, response)
       IN Commit("check_health", service, [m |-> h.m, res |-> Ok], <<h.healthy>>, 0)

\* ---- the log buffer
\* The line'th line read since the buffer was last empty.  Which reader it
\* comes from is fixed by its number: the readers of the running services
\* take turns, stdout and stderr in alternate rounds.
Line(line) ==
  LogEntry(all[(line % Len(all)) + 1], line, (line \div Len(all)) % 2 = 1)

\* A reader thread of a running service reads one more line of its stream.
ReaderAppends ==
  /\ Idle
  /\ appended < MAX_LOG_ENTRIES + MaxOverflow
  /\ LET entry == Line(appended + 1)
     IN /\ \E s \in DOMAIN processes : id(s) = entry.service /\ Running(os, processes[s].pid)
        /\ log_buffer' = add_log_entry(log_buffer, entry)
  /\ appended' = appended + 1
  /\ UNCHANGED <<processes, os, fs, chain, call, nsteps, threads, readers, tasks, bmVars>>

\* The limits and the filters get_logs is called with.
Limits == {0, 2, MAX_LOG_ENTRIES - 1, MAX_LOG_ENTRIES, MAX_LOG_ENTRIES + 1}
Filters == {None, Some(id(Bitcoind))}

GetLogs ==
  /\ Idle
  /\ \E service_filter \in Filters, limit \in Limits :
       call' = [op |-> "get_logs", arg |-> [filter |-> service_filter, limit |-> limit],
                after |-> call.after, res |-> Ok,
                out |-> get_logs(log_buffer, service_filter, limit), events |-> <<>>]
  /\ UNCHANGED <<processes, os, fs, chain, nsteps, logVars, bmVars>>

ClearLogs ==
  /\ Idle
  /\ log_buffer' = clear_logs(log_buffer)
  /\ appended' = 0
  /\ call' = [op |-> "clear_logs", arg |-> "", after |-> call.after, res |-> Ok,
              out |-> <<>>, events |-> <<>>]
  /\ UNCHANGED <<processes, os, fs, chain, nsteps, threads, readers, tasks, bmVars>>

\* The limits and the filters the concurrent get_logs is called with.
QueryArgs == {[filter |-> f, limit |-> l] : f \in Filters, l \in {2, MAX_LOG_ENTRIES + 1}}

\* Thread t executes its next statement.  A reader starts an append when the
\* next line of the running stack is one of its stream; the caller of
\* get_logs returns what it built when it drops the guard.
ThreadStep(t) ==
  /\ Idle
  /\ LET th == threads[t]
         op == OpOf(t)
         stmt == Program(op)[th.pc]
         next == IF th.pc = Len(Program(op)) THEN 1 ELSE th.pc + 1
         moved == [th EXCEPT !.pc = next]
     IN CASE stmt = "lock" ->
               /\ \A u \in Threads : ~Holds(threads[u], OpOf(u))
               /\ (op = "add_log_entry" /\ th.pc = 1)
                    => /\ appended < MAX_LOG_ENTRIES + MaxOverflow
                       /\ Line(appended + 1).is_stderr <=> t = "stderr"
                       /\ \E s \in DOMAIN processes :
                            /\ id(s) = Line(appended + 1).service
                            /\ Running(os, processes[s].pid)
               /\ \E arg \in IF op = "get_logs" THEN QueryArgs ELSE {th.arg} :
                    threads' = [threads EXCEPT ![t] = [moved EXCEPT !.arg = arg]]
               /\ UNCHANGED <<log_buffer, appended, call>>
          [] stmt = "push" ->
               /\ log_buffer' = Append(log_buffer, Line(appended + 1))
               /\ appended' = appended + 1
               /\ threads' = [threads EXCEPT ![t] = moved]
               /\ UNCHANGED call
          [] stmt = "drain" ->
               /\ log_buffer' = IF Len(log_buffer) > MAX_LOG_ENTRIES
                                THEN SubSeq(log_buffer, Len(log_buffer) - MAX_LOG_ENTRIES + 1,
                                            Len(log_buffer))
                                ELSE log_buffer
               /\ threads' = [threads EXCEPT ![t] = moved]
               /\ UNCHANGED <<appended, call>>
          [] stmt = "filter" ->
               /\ threads' = [threads EXCEPT ![t] =
                                [moved EXCEPT !.local =
                                   IF th.arg.filter # None
                                   THEN SelectSeq(log_buffer,
                                                  LAMBDA l : l.service = th.arg.filter[1])
                                   ELSE log_buffer]]
               /\ UNCHANGED <<log_buffer, appended, call>>
          [] stmt = "slice" ->
               /\ threads' = [threads EXCEPT ![t] =
                                [moved EXCEPT !.local =
                                   SubSeq(@, IF Len(@) > th.arg.limit
                                             THEN Len(@) - th.arg.limit + 1 ELSE 1, Len(@))]]
               /\ UNCHANGED <<log_buffer, appended, call>>
          [] stmt = "clear" ->
               /\ log_buffer' = <<>>
               /\ appended' = 0
               /\ threads' = [threads EXCEPT ![t] = moved]
               /\ UNCHANGED call
          [] stmt = "unlock" ->
               /\ threads' = [threads EXCEPT ![t] = IF next = 1 THEN NoThreads[t] ELSE moved]
               /\ call' = IF op = "get_logs" /\ next = 1
                          THEN [op |-> "get_logs", arg |-> th.arg, after |-> call.after,
                                res |-> Ok, out |-> th.local, events |-> <<>>]
                          ELSE call
               /\ UNCHANGED <<log_buffer, appended>>
  /\ UNCHANGED <<processes, os, fs, chain, nsteps, readers, tasks, bmVars>>

\* ---- the provisioner
\* A provisioner call returning r (the provisioner, the files and the result).
CommitProvisioner(op, arg, r, out, events) ==
  /\ fs' = r.bm.fs
  /\ content' = r.bm.content
  /\ checksums_cache' = r.bm.checksums_cache
  /\ fetches' = r.bm.fetches
  /\ call' = [op |-> op, arg |-> arg, after |-> IF Idle THEN call.after ELSE call.op,
              res |-> r.res, out |-> out, events |-> events]
  /\ UNCHANGED <<processes, os, chain, logVars>>

\* A call that uses the network.
CanInstall == Idle /\ nsteps < MaxInstalls

\* BinaryManager::new(): the commands build a provisioner of their own.
NewManager ==
  /\ Idle
  /\ checksums_cache # None \/ fetches > 0
  /\ checksums_cache' = None
  /\ fetches' = 0
  /\ UNCHANGED <<processes, os, fs, chain, call, nsteps, logVars, content>>

FetchChecksums ==
  /\ CanInstall
  /\ nsteps' = nsteps + 1
  /\ \E outcome \in FetchOutcomes :
       CommitProvisioner("fetch_checksums", "", fetch_checksums(Provisioner, outcome),
                         <<>>, <<>>)

\* download(service, progress_callback) meeting env.
Download(service, env) ==
  /\ CanInstall
  /\ nsteps' = nsteps + 1
  /\ LET d == download(Provisioner, service, env)
     IN CommitProvisioner("download", service, d, d.progress, d.events)

\* A download whose body arrives in one piece.
DownloadWhole ==
  \E service \in ServiceId :
    \E env \in DownloadEnvs(service, WholeBody(releases(service))) : Download(service, env)

\* The first download of a fresh installation, its body arriving in chunks.
DownloadChunked ==
  /\ nsteps = 0
  /\ \E service \in ServiceId :
       \E env \in DownloadEnvs(service, ChunkPlans(releases(service))) :
         Download(service, env)

\* check_binary(service), by itself or right after a download has returned.
CheckBinary ==
  /\ Idle \/ call.op = "download"
  /\ \E service \in ServiceId, policy \in Policies :
       \E probe \in Probes(service) :
         CommitProvisioner("check_binary",
                           [service |-> service, probe |-> probe, policy |-> policy],
                           [bm |-> Provisioner, res |-> Ok],
                           check_binary(fs, service, probe, policy), <<>>)
  /\ UNCHANGED nsteps

\* What the downloads of one download_all meet: every download succeeds with
\* the published bytes, but for at most one service, whose download fails at
\* some step or delivers other bytes or another layout.
GoodEnv(service) ==
  [fault |-> "none", content_length |-> None, chunks |-> <<releases(service).size_bytes>>,
   payload |-> "published",
   entries |-> CHOOSE l \in Layouts(service) : "README.md" \notin l]
BatchEnvs ==
  {[s \in ServiceId |-> GoodEnv(s)]}
    \cup UNION {{[s \in ServiceId |-> IF s = odd THEN env ELSE GoodEnv(s)] :
                  env \in {e \in DownloadEnvs(odd, WholeBody(releases(odd))) :
                             /\ e.content_length = None
                             /\ \/ e.payload = "published" /\ e.entries = GoodEnv(odd).entries
                                \/ e.fault = "none"}} : odd \in ServiceId}

\* What the version probes of one download_all yield: the release's version
\* for every binary, but for at most one.
BatchProbes(policy) ==
  {[s \in ServiceId |-> Some(releases(s).version)]}
    \cup (IF policy = "desktop" THEN {}
          ELSE UNION {{[s \in ServiceId |-> IF s = odd THEN probe
                                            ELSE Some(releases(s).version)] :
                         probe \in Probes(odd)} : odd \in ServiceId \ {JsonRpc}})

DownloadAll ==
  /\ CanInstall
  /\ nsteps' = nsteps + 1
  /\ \E policy \in Policies :
       /\ policy = "src-tauri" => checksums_cache = None /\ fetches = 0
       /\ \E outcome \in IF policy = "desktop" /\ checksums_cache = None THEN FetchOutcomes
                          ELSE {CHOOSE o \in FetchOutcomes : o.fault = "send"},
             probes \in BatchProbes(policy), envs \in BatchEnvs :
            LET r == download_all(Provisioner, policy, outcome, probes, envs)
            IN CommitProvisioner("download_all", [policy |-> policy, probes |-> probes],
                                 r, <<>>, r.events)

\* ---- the environment, between calls
\* A running child ends on its own, with success or with failure.
ProcessExits(pid) ==
  /\ Idle
  /\ nsteps < MaxSteps
  /\ Running(os, pid)
  /\ \E st \in {"exit_ok", "exit_fail"} : os' = [os EXCEPT ![pid].st = st]
  /\ nsteps' = nsteps + 1
  /\ UNCHANGED <<processes, fs, chain, call, logVars, bmVars>>

\* The provisioner's download_all installs the missing binaries in catalog
\* order and stops at the first download that fails: the first n of them are
\* installed, all of them when none fails.
InstallBinaries(n) ==
  /\ Idle
  /\ LET missing == SelectSeq(all, LAMBDA s : ~is_installed(fs, s))
     IN /\ n \in 1..Len(missing)
        /\ nsteps + Cost(n < Len(missing)) <= MaxSteps
        /\ fs' = fs \cup {bm_get_binary_path(missing[i]) : i \in 1..n}
        /\ nsteps' = nsteps + Cost(n < Len(missing))
  /\ UNCHANGED <<processes, os, chain, call, logVars, bmVars>>

\* The running inscription indexer creates its own data directory (build_args
\* passes it as --data-dir; start_service does not create it).
OrdCreatesDataDir ==
  /\ Idle
  /\ Ord \in DOMAIN processes
  /\ Running(os, processes[Ord].pid)
  /\ DataDir("ord") \notin fs
  /\ fs' = fs \cup {DataDir("ord")}
  /\ UNCHANGED <<processes, os, chain, call, nsteps, logVars, bmVars>>

\* The call in progress returns to its caller (a blocked call never does).
Return ==
  /\ ~Idle
  /\ call.res.kind # "blocked"
  /\ call' = NoCall(call.op)
  /\ UNCHANGED <<processes, os, fs, chain, nsteps, logVars, bmVars>>

Next ==
  \/ \E service \in ServiceId : StartService(service)
  \/ \E service \in ServiceId : StopService(service)
  \/ StartAll
  \/ StopAll
  \/ ResetData
  \/ GetAllStatus
  \/ \E pid \in DOMAIN os : ProcessExits(pid)
  \/ \E n \in 1..Len(all) : InstallBinaries(n)
  \/ OrdCreatesDataDir
  \/ Return

Spec == Init /\ [][Next]_vars


\* The supervisor with health checks: services are started and stopped one
\* by one or all together, children end on their own, and any service is probed.
NextHealth ==
  \/ \E n \in 1..Len(all) : InstallBinaries(n)
  \/ \E service \in ServiceId : StartService(service)
  \/ \E service \in ServiceId : StopService(service)
  \/ StartAll
  \/ \E pid \in DOMAIN os : ProcessExits(pid)
  \/ \E service \in ServiceId : CheckHealth(service)
  \/ Return

SpecHealth == Init /\ [][NextHealth]_vars

\* The log buffer of a running stack.  It starts where start_all has just
\* returned success on a fresh install with every binary in place: all six
\* services run, each with its two readers, and nothing was logged yet.
RunningStack ==
  start_all([processes |-> NoProcesses, os |-> NoProcesses,
             fs |-> {bm_get_binary_path(s) : s \in ServiceId},
             chain |-> [height |-> 0, wallet |-> FALSE], events |-> <<>>],
            {}, [fault |-> "none", listed |-> FALSE]).m

InitLogs ==
  /\ processes = RunningStack.processes
  /\ os = RunningStack.os
  /\ fs = RunningStack.fs
  /\ chain = RunningStack.chain
  /\ call = NoCall("start_all")
  /\ nsteps = 1
  /\ log_buffer = <<>>
  /\ appended = 0
  /\ threads = NoThreads
  /\ readers = <<>>
  /\ tasks = NoTasks
  /\ checksums_cache = <<>>
  /\ fetches = 0
  /\ content = [p \in {} |-> 0]

NextLogs ==
  \/ ReaderAppends
  \/ GetLogs
  \/ ClearLogs
  \/ Return

SpecLogs == InitLogs /\ [][NextLogs]_vars

\* One download at a time: the manifest, single downloads, status checks.
NextDownload ==
  \/ FetchChecksums
  \/ DownloadWhole
  \/ CheckBinary
  \/ Return

SpecDownload == Init /\ [][NextDownload]_vars

\* One download of a fresh installation, chunk by chunk.
NextProgress ==
  \/ DownloadChunked
  \/ Return

SpecProgress == Init /\ [][NextProgress]_vars

\* Batches: provisioners of successive commands over the same files.
NextDownloadAll ==
  \/ NewManager
  \/ FetchChecksums
  \/ DownloadAll
  \/ Return

SpecDownloadAll == Init /\ [][NextDownloadAll]_vars

\* The supervisor with every query a caller can make between its commands:
\* status, health checks and log queries.
NextStatus ==
  \/ \E n \in 1..Len(all) : InstallBinaries(n)
  \/ \E service \in ServiceId : StartService(service)
  \/ \E service \in ServiceId : StopService(service)
  \/ StartAll
  \/ \E pid \in DOMAIN os : ProcessExits(pid)
  \/ GetAllStatus
  \/ \E service \in ServiceId : CheckHealth(service)
  \/ GetLogs
  \/ Return

SpecStatus == Init /\ [][NextStatus]_vars

\* The bootstrap on its own, against a node that runs on any chain; between
\* two runs the chain is as the previous run left it.
BitcoindStarted(c) ==
  start_service([processes |-> NoProcesses, os |-> NoProcesses,
                 fs |-> {bm_get_binary_path(s) : s \in ServiceId},
                 chain |-> c, events |-> <<>>], Bitcoind, TRUE).m

InitBootstrap ==
  /\ \E height \in 0..(Maturity + MaxBeyond), wallet \in BOOLEAN :
       LET m == BitcoindStarted([height |-> height, wallet |-> wallet])
       IN /\ processes = m.processes /\ os = m.os /\ fs = m.fs /\ chain = m.chain
  /\ call = NoCall("start_service")
  /\ nsteps = 1
  /\ log_buffer = <<>>
  /\ appended = 0
  /\ threads = NoThreads
  /\ readers = <<>>
  /\ tasks = NoTasks
  /\ checksums_cache = <<>>
  /\ fetches = 0
  /\ content = [p \in {} |-> 0]

\* One run of bootstrap_wallet_sync against the running node; the call's
\* events are the RPCs the node answered, its output the blocks mined.
BootstrapWalletSync ==
  /\ CanCall
  /\ Bitcoind \in DOMAIN processes /\ Running(os, processes[Bitcoind].pid)
  /\ \E fault \in BootFaults, listed \in BOOLEAN :
       /\ listed => chain.wallet
       /\ LET b == bootstrap_wallet_sync(chain, fault, listed)
          IN Commit("bootstrap_wallet_sync", "",
                    [m |-> [Machine EXCEPT !.chain = b.chain, !.events = b.rpcs],
                     res |-> b.res],
                    <<b.mined>>, 0)

NextBootstrap ==
  \/ BootstrapWalletSync
  \/ Return

SpecBootstrap == InitBootstrap /\ [][NextBootstrap]_vars

\* The log buffer of the running stack under its lock, one statement of one
\* thread at a time.
NextLocks ==
  \/ \E t \in Threads : ThreadStep(t)
  \/ Return

SpecLocks == InitLogs /\ [][NextLocks]_vars

\* The reader threads of the services, line by line, from an installation
\* that is complete or has the node's binary only.  The write end of a
\* child's pipes is open while the child runs; a pid names the child of the
\* last spawn that got it.
Open(i) ==
  /\ Running(os, readers[i].pid)
  /\ \A j \in (i + 1)..Len(readers) : readers[j].pid # readers[i].pid

InitReaders ==
  /\ processes = NoProcesses
  /\ os = NoProcesses
  /\ \E installed \in {ServiceId, {Bitcoind}} :
       fs = {bm_get_binary_path(s) : s \in installed}
  /\ chain = [height |-> 0, wallet |-> FALSE]
  /\ call = NoCall("new")
  /\ nsteps = 0
  /\ log_buffer = <<>>
  /\ appended = 0
  /\ threads = NoThreads
  /\ readers = <<>>
  /\ tasks = NoTasks
  /\ checksums_cache = <<>>
  /\ fetches = 0
  /\ content = [p \in {} |-> 0]

\* A supervisor call together with the reader threads its spawns launch.
CommitReaders(op, arg, r, faults) ==
  /\ nsteps + 1 + faults <= MaxSteps
  /\ processes' = r.m.processes
  /\ os' = r.m.os
  /\ fs' = r.m.fs
  /\ chain' = r.m.chain
  /\ call' = [op |-> op, arg |-> arg, after |-> call.after, res |-> r.res, out |-> <<>>,
              events |-> r.m.events]
  /\ nsteps' = nsteps + 1 + faults
  /\ readers' = launched(readers, r.m.events)
  /\ UNCHANGED <<log_buffer, appended, threads, tasks, bmVars>>

\* The services whose readers are followed.
ReaderServices == {Bitcoind, JsonRpc}

StartServiceReaders(service) ==
  /\ CanCall
  /\ \E spawn_ok \in BOOLEAN :
       CommitReaders("start_service", service, start_service(Machine, service, spawn_ok),
                     Cost(~spawn_ok))

StopServiceReaders(service) ==
  /\ CanCall
  /\ \E honours \in BOOLEAN, wait_fails \in BOOLEAN :
       CommitReaders("stop_service", service,
                     stop_service(Machine, service, honours, wait_fails), Cost(wait_fails))

\* The child of spawn i writes one more line to one of its streams.
ProcessWrites(i, stream) ==
  /\ Idle
  /\ i \in 1..Len(readers)
  /\ Open(i)
  /\ nsteps < MaxSteps
  /\ nsteps' = nsteps + 1
  /\ readers' = [readers EXCEPT ![i].written[stream] = @ + 1, ![i].unread[stream] = @ + 1]
  /\ UNCHANGED <<processes, os, fs, chain, call, log_buffer, appended, threads, tasks, bmVars>>

\* One turn of the loop `for line in reader.lines()` of the reader of a stream
\* of spawn i: a line in the pipe is read and appended; at end of file (the
\* pipe empty and its write end closed) the loop ends; otherwise the read
\* blocks.
ReaderReads(i, stream) ==
  /\ Idle
  /\ i \in 1..Len(readers)
  /\ ~readers[i].done[stream]
  /\ IF readers[i].unread[stream] > 0
     THEN /\ log_buffer' = add_log_entry(log_buffer,
                                         LogEntry(readers[i].svc, readers[i].written[stream]
                                                    - readers[i].unread[stream] + 1,
                                                  stream = "stderr"))
          /\ appended' = appended + 1
          /\ readers' = [readers EXCEPT ![i].unread[stream] = @ - 1]
     ELSE /\ ~Open(i)
          /\ readers' = [readers EXCEPT ![i].done[stream] = TRUE]
          /\ UNCHANGED <<log_buffer, appended>>
  /\ UNCHANGED <<processes, os, fs, chain, call, nsteps, threads, tasks, bmVars>>

NextReaders ==
  \/ \E service \in ReaderServices : StartServiceReaders(service)
  \/ \E service \in ReaderServices : StopServiceReaders(service)
  \/ \E pid \in DOMAIN os : ProcessExits(pid)
  \/ \E i \in 1..MaxSteps, stream \in Streams : ProcessWrites(i, stream)
  \/ \E i \in 1..MaxSteps, stream \in Streams : ReaderReads(i, stream)
  \/ Return

\* The reader threads and the returning call are scheduled: a read that can
\* be made is made.
SpecReaders ==
  /\ InitReaders /\ [][NextReaders]_vars
  /\ WF_vars(Return)
  /\ \A i \in 1..MaxSteps, stream \in Streams : WF_vars(ReaderReads(i, stream))

\* ---- the end of the supervisor
\* The supervisor is dropped (the application exits).
Drop ==
  /\ CanCall
  /\ \E stubborn \in Stubborn, wait_fail \in AtMostOne(DOMAIN processes) :
       Commit("drop", "", drop(Machine, stubborn, wait_fail), <<>>, Cardinality(wait_fail))

\* A call returns to its caller; after the drop there is no supervisor to call.
ReturnToCaller == call.op # "drop" /\ Return

NextDrop ==
  \/ \E n \in 1..Len(all) : InstallBinaries(n)
  \/ \E service \in ServiceId : StartService(service)
  \/ \E service \in ServiceId : StopService(service)
  \/ StartAll
  \/ \E pid \in DOMAIN os : ProcessExits(pid)
  \/ Drop
  \/ ReturnToCaller

SpecDrop == Init /\ [][NextDrop]_vars

\* ---- the command handlers under the lock of the shared state
\* An installation with every binary in place and nothing started.
InitCommands ==
  /\ processes = NoProcesses
  /\ os = NoProcesses
  /\ fs = {bm_get_binary_path(s) : s \in ServiceId}
  /\ chain = [height |-> 0, wallet |-> FALSE]
  /\ call = NoCall("new")
  /\ nsteps = 0
  /\ log_buffer = <<>>
  /\ appended = 0
  /\ threads = NoThreads
  /\ readers = <<>>
  /\ tasks = NoTasks
  /\ checksums_cache = <<>>
  /\ fetches = 0
  /\ content = [p \in {} |-> 0]

Holding(t) == tasks[t].pc = "holding"
Guarded == {t \in TaskIds : Holding(t)}

\* The frontend invokes a command: its handler starts and asks for its guard.
Invoke(t, cmd) ==
  /\ tasks[t].pc = "idle"
  /\ nsteps < MaxSteps
  /\ nsteps' = nsteps + 1
  /\ tasks' = [tasks EXCEPT ![t] = [cmd |-> cmd, pc |-> "waiting", guard |-> "none"]]
  /\ UNCHANGED <<processes, os, fs, chain, call, log_buffer, appended, threads,
                 readers, bmVars>>

\* RwLock: the write guard is granted when no guard is out, the read guard
\* when no write guard is out.
Acquire(t) ==
  /\ tasks[t].pc = "waiting"
  /\ \A mode \in {LockOf(tasks[t].cmd)} :
       /\ IF mode = "write" THEN Guarded = {}
          ELSE \A u \in Guarded : tasks[u].guard = "read"
       /\ tasks' = [tasks EXCEPT ![t].pc = "holding", ![t].guard = mode]
  /\ UNCHANGED <<processes, os, fs, chain, call, nsteps, log_buffer, appended, threads,
                 readers, bmVars>>

\* The handler of cmd, holding its guard, makes its supervisor call.
Runs(cmd) == Idle /\ \E t \in TaskIds : Holding(t) /\ tasks[t].cmd = cmd

GetStatus == Runs("get_status") /\ GetAllStatus
StartServices == Runs("start_services") /\ StartAll
StopServices == Runs("stop_services") /\ StopAll
ResetChain == Runs("reset_chain") /\ ResetData
GetLogsCommand == Runs("get_logs") /\ GetLogs
ClearLogsCommand == Runs("clear_logs") /\ ClearLogs
CheckServiceHealth == Runs("check_service_health") /\ \E service \in ServiceId : CheckHealth(service)

\* The supervisor call has returned: the handler returns and its guard is
\* dropped.
Release(t) ==
  /\ Holding(t)
  /\ ~Idle
  /\ call.op = BodyOp(tasks[t].cmd)
  /\ call.res.kind # "blocked"
  /\ call' = NoCall(call.op)
  /\ tasks' = [tasks EXCEPT ![t] = NoTask]
  /\ UNCHANGED <<processes, os, fs, chain, nsteps, log_buffer, appended, threads,
                 readers, bmVars>>

NextCommands ==
  \/ \E t \in TaskIds, cmd \in Commands : Invoke(t, cmd)
  \/ \E t \in TaskIds : Acquire(t)
  \/ GetStatus
  \/ StartServices
  \/ StopServices
  \/ ResetChain
  \/ GetLogsCommand
  \/ ClearLogsCommand
  \/ CheckServiceHealth
  \/ \E t \in TaskIds : Release(t)

SpecCommands == InitCommands /\ [][NextCommands]_vars

\* ------------------------------------------------------------ properties
\* Reading the returning call's events.
At(e) == {i \in 1..Len(call.events) : call.events[i].ev = e}
AtFor(e, s) == {i \in At(e) : call.events[i].svc = s}
\* The services of the events named e, in program order.
Visited(e) == [k \in 1..Cardinality(At(e)) |->
                 call.events[CHOOSE i \in At(e) : Cardinality({j \in At(e) : j <= i}) = k].svc]
IsPrefix(p, q) == Len(p) <= Len(q) /\ \A i \in 1..Len(p) : p[i] = q[i]
Returned == call.op # "idle" /\ call.res.kind # "blocked"

\* C1: whenever a call that stops services returns, every process whose record
\* it took out of the map is no longer running, whether or not it honoured
\* SIGTERM; and for each of them the call sent SIGTERM, slept the grace period,
\* sent SIGKILL whatever the process did, and only then waited, in that order.
C1_StoppedProcessIsDead ==
  Returned =>
    \A i \in At("remove") :
      LET s == call.events[i].svc
          p == call.events[i].pid
          at(e) == {j \in AtFor(e, s) : call.events[j].pid = p}
      IN /\ ~Running(os, p)
         /\ s \notin DOMAIN processes
         /\ Cardinality(at("SIGKILL")) = 1
         /\ \E a \in at("SIGTERM"), b \in at("grace_sleep"), c \in at("SIGKILL"),
               d \in at("wait") : i < a /\ a < b /\ b < c /\ c < d

\* A stop of a process that ignored SIGTERM has returned successfully.
C1_Witness ==
  /\ call.op = "stop_service"
  /\ call.res.ok
  /\ At("still_running") # {}

\* C2: when start_all returns an error, it is the error of the last service it
\* attempted; nothing follows that attempt, no later service of the order was
\* attempted, and every service earlier in the order was spawned in this call
\* and is still tracked with that process running.
C2_StartAllAbortsWithoutRollback ==
  (call.op = "start_all" /\ ~call.res.ok) =>
    /\ At("start_service") # {}
    /\ LET last == CHOOSE i \in At("start_service") : \A j \in At("start_service") : j <= i
           f == call.events[last].svc
       IN /\ \/ call.res = Err("already_running", <<display_name(f)>>)
             \/ call.res = Err("binary_not_found", bm_get_binary_path(f))
             \/ call.res = Err("spawn_failed", <<display_name(f)>>)
          /\ AtFor("spawn", f) = {}
          /\ \A j \in (last + 1)..Len(call.events) : call.events[j].ev = "create_dir_all"
          /\ \A s \in ServiceId :
               IF Position(s) > Position(f)
               THEN AtFor("start_service", s) = {} /\ AtFor("spawn", s) = {}
               ELSE s # f =>
                      \E k \in AtFor("spawn", s) :
                        /\ s \in DOMAIN processes
                        /\ processes[s].pid = call.events[k].pid
                        /\ Running(os, call.events[k].pid)

\* start_all has failed at a service after having started others.
C2_Witness ==
  /\ call.op = "start_all"
  /\ ~call.res.ok
  /\ At("spawn") # {}

\* C3: start_all attempts the services in the order Bitcoind, Metashrew,
\* Memshrew, Ord, Esplora, JsonRpc (a prefix of it when it aborts); when a
\* service is spawned, each of its dependencies was spawned earlier in the same
\* call; and a service is attempted only after the previous one's start has
\* completed and its settling pause has elapsed, never alongside it.
C3_StartOrderRespectsDependencies ==
  call.op = "start_all" =>
    /\ IsPrefix(Visited("start_service"),
                <<Bitcoind, Metashrew, Memshrew, Ord, Esplora, JsonRpc>>)
    /\ \A k \in At("spawn") :
         \A d \in dependencies(call.events[k].svc) :
           \E j \in AtFor("spawn", d) : j < k
    /\ \A i \in At("start_service"), j \in At("start_service") :
         (i < j /\ \A x \in At("start_service") : ~(i < x /\ x < j)) =>
           \E k \in At("spawn"), z \in At("sleep") :
             /\ i < k /\ k < z /\ z < j
             /\ call.events[k].svc = call.events[i].svc
             /\ call.events[z].svc = call.events[i].svc
             /\ \A y \in At("spawn") : (i < y /\ y < j) => y = k
             /\ call.events[i].svc = Bitcoind =>
                  \E b \in At("bootstrap") : z < b /\ b < j

\* start_all has started the whole stack, JsonRpc last.
C3_Witness ==
  /\ call.op = "start_all"
  /\ call.res.ok
  /\ AtFor("spawn", JsonRpc) # {}

\* C4: stop_all (also as the first step of reset_data) visits the services in
\* the reverse of start_all's order (a prefix of it when it aborts), so when a
\* service is stopped every service that depends on it has been visited and is
\* no longer tracked.
C4_StopOrderIsReverse ==
  call.op \in {"stop_all", "reset_data"} =>
    /\ IsPrefix(Visited("stop_service"),
                [k \in 1..Len(StartOrder) |-> StartOrder[Len(StartOrder) + 1 - k]])
    /\ \A i \in At("remove") :
         \A s \in ServiceId :
           call.events[i].svc \in dependencies(s) =>
             /\ \E j \in AtFor("stop_service", s) : j < i
             /\ \A j \in AtFor("remove", s) : j < i
             /\ s \notin DOMAIN processes

\* stop_all has stopped a whole running stack.
C4_Witness ==
  /\ call.op = "stop_all"
  /\ call.res.ok
  /\ Cardinality(At("remove")) = Cardinality(ServiceId)

\* What a stop operation does to a process: taking its record, signalling it,
\* waiting for it.
StopOperations == At("remove") \cup At("SIGTERM") \cup At("SIGKILL") \cup At("wait")

\* C5: when stop_all returns, it has attempted to stop every service of its
\* order, whether or not one of the stops failed.
C5_StopAllAttemptsEveryService ==
  call.op = "stop_all" =>
    \A s \in ServiceId : AtFor("stop_service", s) # {}

\* C6: a stop_all that directly follows a stop_all returns success and
\* performs no stop operation: no record taken, no signal, no wait.
C6_SecondStopAllIsNoOp ==
  (call.op = "stop_all" /\ call.after = "stop_all") =>
    call.res.ok /\ StopOperations = {}

\* C7: each service has at most one running process, and a running process of
\* a service is the one its record holds; the map, keyed by service, holds at
\* most one record per service.
C7_OneProcessPerService ==
  \A s \in ServiceId :
    LET live == {p \in DOMAIN os : os[p].svc = s /\ os[p].st = "running"}
    IN /\ Cardinality(live) <= 1
       /\ \A p \in live : s \in DOMAIN processes /\ processes[s].pid = p

\* start_all on a running stack was refused and the stack still runs.
C7_Witness ==
  /\ call.op = "start_all"
  /\ call.res.kind = "already_running"
  /\ \A s \in ServiceId : s \in DOMAIN processes /\ Running(os, processes[s].pid)

\* C8: start_service on a tracked service returns the "already running" error
\* that names the service, does nothing to the operating system, and leaves
\* the process map, the record included, as it was.  The same holds of
\* start_all when the first service of its order is tracked.
C8_AlreadyRunningIsRejected ==
  [][ /\ (call'.op = "start_service" /\ call'.arg \in DOMAIN processes) =>
           /\ call'.res = Err("already_running", <<display_name(call'.arg)>>)
           /\ call'.events = <<>>
           /\ processes' = processes /\ os' = os /\ fs' = fs
      /\ (call'.op = "start_all" /\ call.op = "idle" /\ Bitcoind \in DOMAIN processes) =>
           /\ call'.res = Err("already_running", <<display_name(Bitcoind)>>)
           /\ call'.events = <<Event("start_service", Bitcoind, 0)>>
           /\ processes' = processes /\ os' = os /\ fs' = fs ]_vars

\* start_service was refused for a service that runs.
C8_Witness ==
  /\ call.op = "start_service"
  /\ call.res.kind = "already_running"
  /\ call.arg \in DOMAIN processes
  /\ Running(os, processes[call.arg].pid)

\* C9: start_service on an untracked service returns "binary not found" exactly
\* when the provisioner's is_installed says the binary is not installed; the
\* error names the path the provisioner installs it at, and nothing is spawned
\* or created.
C9_MissingBinaryIsRejected ==
  [][ (call'.op = "start_service" /\ call'.arg \notin DOMAIN processes) =>
        IF is_installed(fs, call'.arg)
        THEN call'.res.kind # "binary_not_found"
        ELSE /\ call'.res = Err("binary_not_found", bm_get_binary_path(call'.arg))
             /\ call'.events = <<>>
             /\ processes' = processes /\ os' = os /\ fs' = fs ]_vars

\* start_service was refused for a missing binary while other binaries are
\* installed.
C9_Witness ==
  /\ call.op = "start_service"
  /\ call.res.kind = "binary_not_found"
  /\ \E s \in ServiceId : is_installed(fs, s)

\* C10: get_all_status never fails and reports each service once, in catalog
\* order: "stopped" if untracked; if tracked, by the one poll of its process:
\* "running" if it has not exited, "stopped" if it exited with success,
\* "error" if it exited otherwise or the poll failed.  The pid (the record's)
\* and the uptime are present exactly when the status is "running".
C10_StatusMapping ==
  call.op = "get_all_status" =>
    /\ call.res.ok
    /\ Len(call.out) = Len(all)
    /\ \A i \in 1..Len(all) :
         LET s == all[i]
             info == call.out[i]
             polls == {j \in At("try_wait") :
                         s \in DOMAIN processes /\ call.events[j].pid = processes[s].pid}
         IN /\ info.id = id(s)
            /\ (info.pid # None) <=> (info.status = "running")
            /\ (info.uptime_secs # None) <=> (info.status = "running")
            /\ IF s \notin DOMAIN processes
               THEN info.status = "stopped" /\ polls = {}
               ELSE /\ Cardinality(polls) = 1
                    /\ LET r == call.events[CHOOSE j \in polls : TRUE].svc
                       IN CASE r = "running" ->
                                 /\ info.status = "running"
                                 /\ info.pid = Some(processes[s].pid)
                                 /\ Running(os, processes[s].pid)
                            [] r = "error" -> info.status = "error"
                            [] r = "exited" ->
                                 /\ processes[s].reaped # None
                                 /\ info.status = IF processes[s].reaped = Some("exit_ok")
                                                  THEN "stopped" ELSE "error"

\* One status report shows a running service next to a tracked service whose
\* status is an error.
C10_Witness ==
  /\ call.op = "get_all_status"
  /\ \E i \in 1..Len(call.out) : call.out[i].status = "running"
  /\ \E i \in 1..Len(call.out) :
       call.out[i].status = "error" /\ all[i] \in DOMAIN processes

\* C11: check_health on a service that has no record in the process map
\* returns false and sends no HTTP request, whatever answers on its port.
C11_UntrackedIsUnhealthyWithoutProbe ==
  (call.op = "check_health" /\ call.arg \notin DOMAIN processes) =>
    /\ call.out = <<FALSE>>
    /\ At("http_get") = {}

\* An untracked service was checked while its port answered with success.
C11_Witness ==
  /\ call.op = "check_health"
  /\ call.arg \notin DOMAIN processes
  /\ \E i \in At("port_answers") : call.events[i].svc = "200"

\* C12: get_logs(None, N) returns at most N entries; when the buffer holds at
\* least N entries it returns exactly N, and they are the N lines appended
\* last, in the order they were appended.
C12_GetLogsReturnsMostRecent ==
  (call.op = "get_logs" /\ call.arg.filter = None) =>
    LET N == call.arg.limit
    IN /\ Len(call.out) <= N
       /\ Len(log_buffer) >= N =>
            call.out = [i \in 1..N |-> Line(appended - N + i)]

\* An unfiltered query for 2 entries was answered from a buffer that is full
\* and has evicted entries.
C12_Witness ==
  /\ call.op = "get_logs"
  /\ call.arg = [filter |-> None, limit |-> 2]
  /\ Len(log_buffer) = MAX_LOG_ENTRIES
  /\ appended > MAX_LOG_ENTRIES
  /\ Len(call.out) = 2

\* C13: the buffer never holds more than MAX_LOG_ENTRIES entries, and it
\* always is the most recent part, of that length at most, of everything
\* appended since it was last cleared (or constructed), oldest first.
C13_BufferIsRecentSuffix ==
  LET kept == IF appended > MAX_LOG_ENTRIES THEN MAX_LOG_ENTRIES ELSE appended
  IN /\ Len(log_buffer) <= MAX_LOG_ENTRIES
     /\ log_buffer = [i \in 1..kept |-> Line(appended - kept + i)]

\* The buffer has overflowed: it is full and older entries were evicted.
C13_Witness ==
  /\ appended = MAX_LOG_ENTRIES + 1
  /\ Len(log_buffer) = MAX_LOG_ENTRIES
  /\ log_buffer[1].message = 2

\* The bytes the returning download received in full, if it got that far.
Received(c) == {c.events[i].svc : i \in {j \in 1..Len(c.events) : c.events[j].ev = "received"}}

\* C14: a download whose payload does not match the checksum supplied for it
\* (by the manifest, else by the release table) returns the checksum error,
\* and the install path is as before the call: a file that was there is
\* unchanged, and none appears where none was.
C14_ChecksumMismatchLeavesInstallPath ==
  [][(/\ Idle
      /\ call'.op = "download"
      /\ \E bytes \in Received(call') :
           /\ expected_checksum(Provisioner, releases(call'.arg)) # None
           /\ expected_checksum(Provisioner, releases(call'.arg))[1] # hex_sha256(bytes))
     => LET dest_path == bm_get_binary_path(call'.arg)
        IN /\ call'.res = Err("Checksum verification failed", id(call'.arg))
           /\ (dest_path \in fs') = (dest_path \in fs)
           /\ (dest_path \in DOMAIN content') = (dest_path \in DOMAIN content)
           /\ dest_path \in DOMAIN content => content'[dest_path] = content[dest_path]
    ]_vars

\* A download of the node was rejected for its checksum while the binary
\* installed by an earlier download is at the install path.
C14_Witness ==
  /\ call.op = "download"
  /\ call.arg = Bitcoind
  /\ call.res.kind = "Checksum verification failed"
  /\ Received(call) = {"other"}
  /\ bm_get_binary_path(Bitcoind) \in DOMAIN content
  /\ content[bm_get_binary_path(Bitcoind)] = "published"

\* C15: a download that fails, at whatever step, leaves a valid file that was
\* at the install path before the call in place and unchanged.
C15_FailedDownloadKeepsValidFile ==
  [][(/\ Idle
      /\ call'.op = "download"
      /\ ~call'.res.ok
      /\ bm_get_binary_path(call'.arg) \in DOMAIN content
      /\ content[bm_get_binary_path(call'.arg)] \in Payloads)
     => /\ bm_get_binary_path(call'.arg) \in fs'
        /\ content'[bm_get_binary_path(call'.arg)] = content[bm_get_binary_path(call'.arg)]
    ]_vars

\* C17: an install-status check right after a download of the same service
\* that returned success never reports NotInstalled.
C17_DownloadedIsInstalled ==
  [][(/\ call.op = "download"
      /\ call.res.ok
      /\ call'.op = "check_binary"
      /\ call'.arg.service = call.arg)
     => call'.out.status # "NotInstalled"
    ]_vars

\* C18: check_binary always returns; it reports NotInstalled exactly when
\* nothing exists at the install path; and for an installed service whose
\* version probe fails, or that has no probe, the version is "unknown".
C18_NotInstalledIffAbsent ==
  call.op = "check_binary" =>
    LET service == call.arg.service
        exists == bm_get_binary_path(service) \in fs
    IN /\ call.res = Ok
       /\ (call.out.status = "NotInstalled") <=> ~exists
       /\ (exists /\ (service = JsonRpc \/ call.arg.probe = None)) =>
            call.out.version = "unknown"

\* The bundle is installed and checked: its version is unknown whatever the
\* probe, and the src-tauri build reports an update for it.
C18_Witness ==
  /\ call.op = "check_binary"
  /\ call.arg.service = JsonRpc
  /\ call.arg.policy = "src-tauri"
  /\ call.arg.probe # None
  /\ call.out = UpdateAvailable("unknown", releases(JsonRpc).version)

\* C16: the values one download passes to the progress callback never
\* decrease; the first is 0.0; while the body arrives they stay within 0.0 to
\* 0.9; a successful download ends with 1.0, reported once, and a failed one
\* never reports 1.0.
C16_ProgressIsMonotone ==
  call.op = "download" =>
    LET p == call.out
        n == Len(p)
    IN /\ p[1] = 0
       /\ \A i \in 1..(n - 1) : p[i] <= p[i + 1]
       /\ call.res.ok => p[n] = 1000 /\ \A i \in 1..(n - 1) : p[i] \in 0..900
       /\ ~call.res.ok => \A i \in 1..n : p[i] \in 0..900

\* The services of the events named e of the call c, in program order.
Services(c, e) ==
  LET named == SelectSeq(c.events, LAMBDA x : x.ev = e)
  IN [i \in 1..Len(named) |-> named[i].svc]

\* C19: download_all attempts only services whose status is NotInstalled or
\* UpdateAvailable, in catalog order, and all of them when it succeeds; the
\* first download that fails ends it with that download's error, nothing
\* being attempted after it; and the files of the services that were
\* installed when it was called are as they were.
C19_DownloadAllFailsFast ==
  [][(Idle /\ call'.op = "download_all")
     => LET policy == call'.arg.policy
            probes == call'.arg.probes
            status(s) == check_binary(fs, s, probes[s], policy).status
            Needing == SelectSeq(all, LAMBDA s : status(s) \in {"NotInstalled", "UpdateAvailable"})
        IN \A needing \in {Needing} :
           \A ids \in {[i \in 1..Len(needing) |-> id(needing[i])]},
              attempts \in {Services(call', "download")},
              failures \in {Services(call', "download_failed")} :
             LET n == Len(attempts)
             IN /\ n <= Len(ids) /\ attempts = SubSeq(ids, 1, n)
                /\ call'.res.ok => n = Len(ids) /\ failures = <<>>
                /\ failures # <<>> =>
                     /\ failures = <<attempts[n]>>
                     /\ ~call'.res.ok
                     /\ call'.res.detail = attempts[n]
                /\ (~call'.res.ok /\ failures = <<>>) =>
                     /\ attempts = <<>>
                     /\ call'.res.kind \in {"Failed to fetch checksums",
                                            "Failed to parse checksums"}
                /\ \A s \in ServiceId \ Range(needing) :
                     /\ bm_get_binary_path(s) \in fs'
                     /\ bm_get_binary_path(s) \in DOMAIN content =>
                          content'[bm_get_binary_path(s)] = content[bm_get_binary_path(s)]
    ]_vars

\* A download_all that skipped a service installed earlier, went on to the
\* services after it and was ended by a failing download.
C19_Witness ==
  /\ call.op = "download_all"
  /\ ~call.res.ok
  /\ Services(call, "download_failed") # <<>>
  /\ Len(Services(call, "download")) >= 2
  /\ bm_get_binary_path(Bitcoind) \in DOMAIN content
  /\ id(Bitcoind) \notin Range(Services(call, "download"))
  /\ \E s \in ServiceId : bm_get_binary_path(s) \notin fs

\* C20: one provisioner requests the checksum manifest at most once.
C20_ManifestFetchedAtMostOnce ==
  fetches <= 1

\* C21: when the checksum manifest cannot be obtained, download_all does
\* not fail for that reason: no download_all ends with the error of the
\* manifest request.
C21_ManifestProblemIsNotFatal ==
  call.op = "download_all" => call.res.kind # "Failed to fetch checksums"

Bootstraps(c) == Services(c, "bootstrap")

\* C23: a failing bootstrap (an RPC failing, an error response, a panic of
\* its thread) never makes start_all fail or skip a service: whatever the
\* bootstrap did, start_all attempts the same services, returns the same
\* result and leaves the same records, processes and files as the start_all
\* whose bootstrap succeeds would from the same state.
C23_BootstrapFailureIsNotFatal ==
  [][(Idle /\ call'.op = "start_all")
       => \A attempted \in {Services(call', "start_service")} :
            /\ \E spawn_fail \in AtMostOne(ServiceId) :
                 \A r \in {start_all(Machine, spawn_fail,
                                      [fault |-> "none", listed |-> chain.wallet])} :
                   /\ call'.res = r.res
                   /\ processes' = r.m.processes /\ os' = r.m.os /\ fs' = r.m.fs
                   /\ attempted = Services([events |-> r.m.events], "start_service")
            /\ (Bootstraps(call') # <<>> /\ ~call'.res.ok)
                 => /\ Len(attempted) >= 2
                    /\ call'.res.kind \in {"spawn_failed", "binary_not_found", "already_running"}
    ]_vars

\* A start_all whose bootstrap failed and which started every service.
C23_Witness ==
  /\ call.op = "start_all" /\ call.res.ok
  /\ Bootstraps(call) # <<>> /\ Bootstraps(call)[1] # "ok"
  /\ DOMAIN processes = ServiceId
  /\ Services(call, "start_service") = [i \in 1..Len(StartOrder) |-> StartOrder[i]]

\* C24: a process record is created only by a successful spawn and removed
\* only by a stop whose wait succeeded; a stop_service that returns an error
\* leaves the service tracked.
C24_RecordRemovedOnlyOnConfirmedStop ==
  [][\A s \in ServiceId :
       /\ (s \notin DOMAIN processes /\ s \in DOMAIN processes')
            => /\ call'.op \in {"start_service", "start_all"}
               /\ Event("spawn", s, processes'[s].pid) \in Range(call'.events)
       /\ (s \in DOMAIN processes /\ s \notin DOMAIN processes')
            => /\ call'.op \in {"stop_service", "stop_all", "reset_data"}
               /\ Event("wait", s, processes[s].pid) \in Range(call'.events)
               /\ ~(call'.res.kind = "wait_failed" /\ call'.res.detail = <<display_name(s)>>)
       /\ (/\ Idle /\ call'.op = "stop_service" /\ call'.arg = s
           /\ ~call'.res.ok /\ s \in DOMAIN processes)
            => s \in DOMAIN processes'
    ]_vars

\* The tracked service s whose process ended otherwise than with success,
\* reaped or not, given the records and the process table.
FailedIn(records, table, s) ==
  /\ s \in DOMAIN records
  /\ \/ records[s].reaped # None /\ records[s].reaped[1] # "exit_ok"
     \/ /\ records[s].reaped = None /\ records[s].pid \in DOMAIN table
        /\ table[records[s].pid].st \notin {"running", "exit_ok"}

\* What a get_all_status reported for service s.
InfoOf(out, s) == out[CHOOSE i \in 1..Len(out) : out[i].id = id(s)]

\* C25: once the process of a tracked service has exited with failure, every
\* status query reports the service as error, without pid; and every step
\* but a stop of that service leaves it tracked, failed, with the same
\* process: no status query, health check, log query, start_service or
\* start_all moves it out of Error or replaces its process.
C25_ErrorUntilRestart ==
  [][\A s \in ServiceId :
       FailedIn(processes, os, s)
         => /\ (Idle /\ call'.op = "get_all_status")
                 => /\ InfoOf(call'.out, s).status = "error"
                    /\ InfoOf(call'.out, s).pid = None
            /\ s \in DOMAIN processes'
                 => /\ FailedIn(processes', os', s)
                    /\ processes'[s].pid = processes[s].pid
            /\ s \notin DOMAIN processes'
                 => Idle /\ call'.op = "stop_service" /\ call'.arg = s
    ]_vars

\* A status query that follows a start_all and reports as error a service
\* whose failed process had been reaped by an earlier query.
C25_Witness ==
  /\ call.op = "get_all_status" /\ call.after = "start_all"
  /\ \E s \in DOMAIN processes :
       /\ processes[s].reaped = Some("exit_fail")
       /\ Event("try_wait", "exited", processes[s].pid) \in Range(call.events)
       /\ InfoOf(call.out, s).status = "error"

\* C26: within one start_all the bootstrap runs at most once, and once
\* exactly when Bitcoind was spawned; it begins right after the 2 s pause
\* that follows that spawn, and its outcome (ok, an RPC error, a panic) is
\* known before Metashrew or any later service is attempted; when starting
\* Bitcoind fails there is no bootstrap.
C26_BootstrapOnceAfterBitcoind ==
  call.op = "start_all" =>
    /\ Cardinality(At("bootstrap")) <= 1
    /\ At("bootstrap") # {} <=> AtFor("spawn", Bitcoind) # {}
    /\ \A b \in At("bootstrap") :
         /\ call.events[b].svc \in {"ok", "rpc", "panicked"}
         /\ call.events[b - 1] = Event("sleep", Bitcoind, 2000)
         /\ \E k \in AtFor("spawn", Bitcoind) : k < b - 1
         /\ \A j \in At("start_service") \cup At("spawn") :
              call.events[j].svc # Bitcoind => b < j
    /\ (~call.res.ok /\ Visited("start_service") = <<Bitcoind>>) => At("bootstrap") = {}

\* A start_all whose bootstrap panicked and which went on to spawn Metashrew.
C26_Witness ==
  /\ call.op = "start_all"
  /\ \E b \in At("bootstrap") : call.events[b].svc = "panicked"
  /\ AtFor("spawn", Metashrew) # {}

\* C27: when the node reports the height h of its chain, the bootstrap asks
\* for exactly 101 - h blocks if h < 101, a number between 1 and 101, and for
\* none if h >= 101; a bootstrap that succeeds leaves the chain at height 101
\* or, if it was higher, where it was, with the dev wallet; and on a chain of
\* 101 blocks or more that has the wallet it succeeds without mining, whether
\* the wallet is listed or its creation is answered "already exists".
C27_BootstrapMinesUpToMaturity ==
  [][(/\ Idle /\ call'.op = "bootstrap_wallet_sync"
      /\ Rpc("getblockcount", chain.height) \in Range(call'.events))
       => \A h \in {chain.height} :
          \A asked \in {{e \in Range(call'.events) : e.svc = "generatetoaddress"}} :
            /\ h < Maturity
                 => /\ call'.res \in {Ok, Err("rpc", <<"generatetoaddress">>)}
                    /\ call'.res.ok
                         => /\ asked = {Rpc("generatetoaddress", Maturity - h)}
                            /\ Maturity - h \in 1..Maturity
                            /\ call'.out = <<Maturity - h>>
                            /\ chain'.height = Maturity
                    /\ ~call'.res.ok => asked = {} /\ chain'.height = h
            /\ h >= Maturity
                 => /\ call'.res.ok /\ asked = {} /\ call'.out = <<0>>
                    /\ chain'.height = h
            /\ call'.res.ok => chain'.height >= Maturity /\ chain'.wallet
            /\ (h >= Maturity /\ chain.wallet) => chain' = chain
    ]_vars

\* A second bootstrap that found 101 blocks and a wallet that was not listed:
\* the creation was answered "already exists" and nothing was mined.
C27_Witness ==
  /\ call.op = "bootstrap_wallet_sync" /\ call.after = "bootstrap_wallet_sync"
  /\ call.res.ok /\ call.out = <<0>>
  /\ Rpc("createwallet", 0) \in Range(call.events)
  /\ Rpc("getblockcount", Maturity) \in Range(call.events)
  /\ chain.height = Maturity

\* The positions of the removal attempts on directory dir in the events c.
Removals(c, dir) == {j \in 1..Len(c) : c[j].ev = "remove_dir_all" /\ c[j].svc = dir[Len(dir)]}

\* C28: reset_data returns, and for each data directory: one that does not
\* exist is skipped without an attempt and without error; one that exists is
\* attempted at most 3 times, each failed attempt being followed by the 1 s
\* pause, a successful attempt being the last and removing it; after the
\* third failure reset_data returns the error naming that directory, the later
\* directories being neither attempted nor changed.
C28_RemovalRetriesAreBounded ==
  [][(Idle /\ call'.op = "reset_data")
       => \A c \in {call'.events} :
            /\ call'.res.ok \/ call'.res.kind = "remove_failed"
            /\ call'.res.ok => Range(ResetDirs) \cap fs' = {}
            /\ ~call'.res.ok => \E i \in 1..Len(ResetDirs) :
                                  /\ call'.res.detail = ResetDirs[i]
                                  /\ ResetDirs[i] \in fs'
                                  /\ Cardinality(Removals(c, ResetDirs[i])) = RemoveAttempts
                                  /\ c[Len(c)] = Event("sleep", "", 1000)
                                  /\ \A k \in (i + 1)..Len(ResetDirs) :
                                       /\ Removals(c, ResetDirs[k]) = {}
                                       /\ ResetDirs[k] \in fs' <=> ResetDirs[k] \in fs
            /\ \A i \in 1..Len(ResetDirs) :
                 \A dir \in {ResetDirs[i]} : \A tries \in {Removals(c, dir)} :
                   /\ dir \notin fs => tries = {} /\ dir \notin fs'
                   /\ Cardinality(tries) <= RemoveAttempts
                   /\ (dir \in fs /\ tries = {})
                        => ~call'.res.ok /\ \E k \in 1..(i - 1) : call'.res.detail = ResetDirs[k]
                   /\ \A j \in tries :
                        /\ c[j].pid = 0
                             => /\ c[j + 1] = Event("sleep", "", 1000)
                                /\ j + 2 \in tries \/ j + 1 = Len(c)
                        /\ c[j].pid = 1
                             => /\ \A x \in tries : x <= j
                                /\ dir \notin fs'
                        /\ \A k \in (i + 1)..Len(ResetDirs) :
                             \A x \in Removals(c, ResetDirs[k]) : j < x
    ]_vars

\* A reset_data that gave up on the second directory after three failed
\* attempts, having removed the first and left the later ones in place.
C28_Witness ==
  /\ call.op = "reset_data"
  /\ call.res = Err("remove_failed", ResetDirs[2])
  /\ Cardinality(Removals(call.events, ResetDirs[2])) = RemoveAttempts
  /\ ResetDirs[1] \notin fs /\ Removals(call.events, ResetDirs[1]) # {}
  /\ ResetDirs[3] \in fs

\* C29: reset_data runs stop_all, pauses 2 s, reclaims orphans (by name, then
\* by port, then a short pause), pauses 500 ms, and only then removes data
\* directories; it does so whether stop_all succeeded or returned an error,
\* and no removal is attempted before the stop and the reclamation are over.
C29_ResetOrder ==
  call.op = "reset_data" =>
    /\ Cardinality(At("stop_all")) = 1
    /\ \A a \in At("stop_all") :
         LET orphans == Len(OrphanBinaries) + Len(OrphanPorts)
         IN /\ call.events[a].svc \in {"ok", "wait_failed"}
            /\ \A i \in At("stop_service") \cup At("SIGKILL") \cup At("wait") : i < a
            /\ call.events[a + 1] = Event("sleep", "", 2000)
            /\ At("pkill") = (a + 2)..(a + 1 + Len(OrphanBinaries))
            /\ At("kill_port") = (a + 2 + Len(OrphanBinaries))..(a + 1 + orphans)
            /\ call.events[a + 2 + orphans] = Event("sleep", "", 100)
            /\ call.events[a + 3 + orphans] = Event("sleep", "", 500)
            /\ \A j \in At("remove_dir_all") : j > a + 3 + orphans
            /\ \A j \in 1..(a + 3 + orphans) : call.events[j].ev # "remove_dir_all"

\* A reset_data whose stop_all returned an error and which went on to remove
\* the data directories.
C29_Witness ==
  /\ call.op = "reset_data" /\ call.res.ok
  /\ \E a \in At("stop_all") : call.events[a].svc = "wait_failed"
  /\ \E j \in At("remove_dir_all") : call.events[j].pid = 1
  /\ Range(ResetDirs) \cap fs = {}

\* The threads that hold the buffer's lock.
Holders == {t \in Threads : Holds(threads[t], OpOf(t))}

\* C30: the appends of the reader threads, get_logs and clear_logs exclude
\* each other on the buffer: at most one thread holds the lock, and a thread
\* holds it from the first to the last statement of its operation; whenever the
\* lock is free the buffer holds, in order, the last entries appended since
\* it was last cleared, all of them up to the capacity (no append is lost
\* but by eviction or clear); the buffer exceeds the capacity by at most one
\* entry and only while the appending thread holds the lock before its
\* drain, so no reader sees it; and what get_logs returns is what get_logs
\* yields on the buffer as it stands, within the capacity.
C30_BufferLockSerializes ==
  /\ Cardinality(Holders) <= 1
  /\ \A t \in Threads : threads[t].pc > 1 => t \in Holders
  /\ Holders = {}
       => \A kept \in {IF appended > MAX_LOG_ENTRIES THEN MAX_LOG_ENTRIES ELSE appended} :
            log_buffer = [i \in 1..kept |-> Line(appended - kept + i)]
  /\ Len(log_buffer) <= MAX_LOG_ENTRIES + 1
  /\ Len(log_buffer) > MAX_LOG_ENTRIES
       => \E t \in Holders : Program(OpOf(t))[threads[t].pc] = "drain"
  /\ \A t \in Threads : Len(threads[t].local) <= MAX_LOG_ENTRIES
  /\ call.op = "get_logs"
       => /\ Len(call.out) <= MAX_LOG_ENTRIES
          /\ call.out = get_logs(log_buffer, call.arg.filter, call.arg.limit)

\* A reader thread holds the lock on a full buffer it has just pushed one
\* more entry onto, its drain still to come.
C30_Witness ==
  /\ \E t \in {"stdout", "stderr"} : t \in Holders
  /\ Len(log_buffer) = MAX_LOG_ENTRIES + 1
  /\ appended = MAX_LOG_ENTRIES + 1

\* stop_service has returned for the service of spawn i.
StopReturned(i) ==
  /\ i \in 1..Len(readers)
  /\ call.op = "stop_service" /\ call.res.kind # "blocked"
  /\ call.arg = readers[i].svc
ReadersDone(i) == i \in 1..Len(readers) /\ \A s \in Streams : readers[i].done[s]

\* C31: a reader loop ends only at the end of its stream, the pipe empty and
\* the process gone, so it runs as long as the process does; a loop that has
\* ended stays ended and appends nothing, every entry added to the buffer
\* being a line read by a loop that has not ended; and once stop_service has
\* returned for a service, both readers of each of its spawns eventually end.
C31_ReadersEndAfterStop ==
  /\ [][/\ \A i \in 1..Len(readers), s \in Streams :
            /\ (~readers[i].done[s] /\ readers'[i].done[s])
                 => ~Open(i) /\ readers[i].unread[s] = 0
            /\ readers[i].done[s]
                 => readers'[i].done[s] /\ readers'[i].unread[s] = readers[i].unread[s]
            /\ Open(i) => ~readers[i].done[s]
        /\ log_buffer' # log_buffer
             => \E j \in 1..Len(readers), r \in Streams :
                  /\ ~readers[j].done[r]
                  /\ readers'[j].unread[r] = readers[j].unread[r] - 1
                  /\ log_buffer'[Len(log_buffer')].service = id(readers[j].svc)
       ]_vars
  /\ \A i \in 1..MaxSteps : StopReturned(i) ~> ReadersDone(i)

\* Both readers of a stopped service have ended after reading what its
\* process had written to both streams.
C31_Witness ==
  /\ Idle /\ call.after = "stop_service"
  /\ \E i \in 1..Len(readers) :
       /\ ReadersDone(i)
       /\ \A s \in Streams : readers[i].written[s] > 0 /\ readers[i].unread[s] = 0
       /\ readers[i].svc \notin DOMAIN processes

\* C32: check_health on a tracked service sends one probe and returns true
\* exactly when the probe is answered with a success status, 401, 405 or
\* 404; any other status, a refused connection or a timeout gives false; the
\* call returns a boolean, never an error.
C32_HealthyIffSignOfLife ==
  (call.op = "check_health" /\ call.arg \in DOMAIN processes) =>
    /\ call.res = Ok
    /\ Cardinality(At("http_get")) = 1
    /\ \A i \in At("port_answers") :
         \A answer \in {call.events[i].svc} :
           /\ answer \in {"200", "204", "401", "405", "404"} => call.out = <<TRUE>>
           /\ answer \in {"403", "500", "connect_error", "timeout"} => call.out = <<FALSE>>
           /\ answer \in Responses

\* A tracked service whose port answered the probe with 404 was found healthy.
C32_Witness ==
  /\ call.op = "check_health" /\ call.arg \in DOMAIN processes
  /\ \E i \in At("port_answers") : call.events[i].svc = "404"
  /\ call.out = <<TRUE>>

\* C33: a payload whose SHA-256 digest equals the expected checksum up to the
\* case of the hex digits passes the verification of download.
C33_ChecksumCaseIsIgnored ==
  (call.op = "download" /\ Received(call) # {})
    => \A expected \in {expected_checksum(Provisioner, releases(call.arg))} :
         (expected # None /\ expected[1][1] \in Received(call))
           => call.res.kind # "Checksum verification failed"

\* C34: a download that received its payload verifies it against the manifest's
\* entry for the file when there is one, otherwise against the release's
\* embedded checksum when that is not empty; with neither it verifies nothing
\* and goes on to install whatever arrived.
Listed(service) ==
  checksums_cache # None /\ releases(service).filename \in DOMAIN checksums_cache[1]
VerificationFailed == call.res.kind = "Checksum verification failed"
C34_ChecksumSource ==
  (call.op = "download" /\ Received(call) # {})
    => \A payload \in Received(call), release \in {releases(call.arg)} :
         /\ Listed(call.arg)
              => (VerificationFailed
                    <=> hex_sha256(payload) # checksums_cache[1][release.filename])
         /\ (~Listed(call.arg) /\ release.sha256 # <<>>)
              => (VerificationFailed <=> hex_sha256(payload) # release.sha256)
         /\ (~Listed(call.arg) /\ release.sha256 = <<>>)
              => /\ ~VerificationFailed
                 /\ call.res.ok => /\ is_installed(fs, call.arg)
                                   /\ content[bm_get_binary_path(call.arg)] = payload
                                   /\ call.out[Len(call.out)] = 1000

\* An unlisted release without embedded checksum installs bytes that are not
\* the published ones; a listed one is checked against the manifest although
\* its embedded checksum matches.
C34_Witness ==
  /\ call.op = "download" /\ call.arg = Metashrew /\ ~Listed(Metashrew)
  /\ Received(call) = {"other"} /\ call.res.ok
  /\ content[bm_get_binary_path(Metashrew)] = "other"

\* C35: constructing the supervisor reclaims orphans by name for every binary
\* name of the catalog and by port for every port of the port configuration,
\* and leaves a supervisor with no tracked service and an empty log buffer.
KilledByName == {call.events[i].svc : i \in At("pkill")}
ScannedPorts == {call.events[i].pid : i \in At("kill_port")}
ConfiguredPorts == {ports[k] : k \in DOMAIN ports}
C35_OrphansReclaimedEverywhere ==
  call.op = "new"
    => /\ KilledByName = {binary_name(s) : s \in ServiceId}
       /\ ConfiguredPorts \subseteq ScannedPorts
       /\ processes = NoProcesses /\ log_buffer = <<>>

\* What does hold of the construction: every name, and every configured port
\* but the electrum port of the explorer.
C35_AllButElectrum ==
  call.op = "new"
    => /\ KilledByName = {binary_name(s) : s \in ServiceId}
       /\ ScannedPorts = ConfiguredPorts \ {ports.esplora_electrum}
       /\ processes = NoProcesses /\ log_buffer = <<>>

\* C36: a start_service that returns an error, whichever of the three it is,
\* leaves the process map with all its records as it was, has spawned nothing,
\* has launched no reader thread and has appended nothing to the log buffer.
StartFailures == {"already_running", "binary_not_found", "spawn_failed"}
C36_FailedStartChangesNothing ==
  [][(call'.op = "start_service" /\ call.op = "idle" /\ ~call'.res.ok)
       => /\ call'.res.kind \in StartFailures
          /\ processes' = processes
          /\ os' = os
          /\ readers' = readers
          /\ \A i \in 1..Len(call'.events) :
               call'.events[i].ev \notin {"spawn", "reader_stdout", "reader_stderr"}
          /\ log_buffer' = log_buffer /\ appended' = appended]_vars

\* A start rejected as already running while the readers of the first start
\* are at work and the buffer holds a line of theirs.
C36_Witness ==
  /\ call.op = "start_service" /\ call.res.kind = "already_running"
  /\ call.arg \in DOMAIN processes
  /\ Len(readers) = 1 /\ Len(log_buffer) = 1

\* C37: when reset_data has returned success the process map is empty, whatever
\* its stop_all returned, so that no start that follows is rejected as already
\* running.
C37_NothingTrackedAfterReset ==
  (call.op = "reset_data" /\ call.res.ok)
    => /\ processes = NoProcesses
       /\ \A service \in ServiceId :
            start_service(Machine, service, TRUE).res.kind # "already_running"

\* What does hold: the map is empty after a successful reset_data whose
\* stop_all returned success.
C37_NothingTrackedAfterCleanStop ==
  (call.op = "reset_data" /\ call.res.ok
     /\ \A i \in At("stop_all") : call.events[i].svc = Ok.kind)
    => processes = NoProcesses

\* The download_all that directly follows the returning one on the same
\* provisioner, in the same build: every version probe yields the version of
\* the release just installed, the manifest is absent if it is asked for again,
\* and any download it makes would succeed.
SecondDownloadAll ==
  download_all(Provisioner, call.arg.policy,
               CHOOSE o \in FetchOutcomes : o.fault = "status",
               [s \in ServiceId |-> Some(releases(s).version)],
               [s \in ServiceId |-> GoodEnv(s)])
Redownloaded ==
  {SecondDownloadAll.events[i].svc :
     i \in {j \in 1..Len(SecondDownloadAll.events) :
              SecondDownloadAll.events[j].ev = "download"}}

\* C38: right after a successful download_all, a second download_all finds
\* every service installed and up to date and downloads nothing, in both
\* builds and including the service that has no version probe.  Stated for the
\* first having left every binary at its install path.
C38_DownloadAllIsIdempotent ==
  (call.op = "download_all" /\ call.res.ok /\ \A s \in ServiceId : is_installed(fs, s))
    => /\ SecondDownloadAll.res.ok
       /\ Redownloaded = {}
       /\ SecondDownloadAll.bm.fs = fs /\ SecondDownloadAll.bm.content = content

\* What does hold: the second download_all succeeds and downloads at most the
\* bundle of JsonRpc again; it does in the src-tauri build, and in the desktop
\* build when the bundle unpacked by the first left nothing at the install path.
C38_OnlyTheUnprobedIsRedownloaded ==
  (call.op = "download_all" /\ call.res.ok)
    => /\ SecondDownloadAll.res.ok
       /\ Redownloaded = IF call.arg.policy = "desktop" /\ is_installed(fs, JsonRpc)
                          THEN {} ELSE {id(JsonRpc)}

\* C39: the handlers of start_services, stop_services and reset_chain, and
\* get_status for its supervisor call, hold the write guard of the shared
\* state, which excludes every other guard; the handlers of get_logs,
\* clear_logs and check_service_health hold the read guard, which several
\* handlers can hold at once; and no supervisor call is made without the
\* guard of its handler.
C39_CommandsUnderTheirGuard ==
  /\ \A t \in Guarded :
       tasks[t].guard = IF tasks[t].cmd \in {"start_services", "stop_services",
                                            "reset_chain", "get_status"}
                        THEN "write" ELSE "read"
  /\ \A t \in Guarded : tasks[t].guard = "write" => Guarded = {t}
  /\ call.op \in {"start_all", "stop_all", "reset_data", "get_all_status"}
       => \E t \in Guarded : tasks[t].guard = "write" /\ BodyOp(tasks[t].cmd) = call.op
  /\ call.op \in {"get_logs", "clear_logs", "check_health"}
       => \E t \in Guarded : tasks[t].guard = "read" /\ BodyOp(tasks[t].cmd) = call.op

\* clear_logs is returning while the handler of check_service_health holds
\* its read guard too, after a start_services that ran alone.
C39_Witness ==
  /\ call.op = "clear_logs"
  /\ processes # NoProcesses
  /\ \E t, u \in Guarded :
       /\ tasks[t].cmd = "clear_logs" /\ tasks[u].cmd = "check_service_health"
       /\ tasks[t].guard = "read" /\ tasks[u].guard = "read"

\* C40: when the supervisor has been dropped, no process it spawned is still
\* running, even when stopping one of the services failed.
C40_NothingOutlivesTheSupervisor ==
  call.op = "drop" => \A pid \in DOMAIN os : ~Running(os, pid)

\* What does hold: nothing is left running by a drop whose stop_all returned
\* success.
C40_NothingOutlivesACleanDrop ==
  (call.op = "drop" /\ \A i \in At("stop_all") : call.events[i].svc = "ok")
    => \A pid \in DOMAIN os : ~Running(os, pid)

====
